---- MODULE Spec2Model ----
(***************************************************************************)
(* Single-producer / single-consumer ring buffer (squ1dd13/ringbuf).       *)
(*                                                                         *)
(* Two buffer types of the repository are modelled:                        *)
(*   "SharedRb"   - src/src/rbs/shared.rs, driven by one producer and one  *)
(*                  consumer whose atomic loads and stores are single      *)
(*                  steps, so that every interleaving is explored;         *)
(*   "RingBuffer" - src/src/ring_buffer.rs (head / tail), driven by whole  *)
(*                  calls.                                                 *)
(* A behaviour constructs one buffer (from_raw_parts) and then runs        *)
(* endpoint operations on it.                                              *)
(*                                                                         *)
(* Items are tagged with their push order (1, 2, 3, ...), so every item is *)
(* distinct and any reordering, loss or duplication is visible.            *)
(***************************************************************************)
EXTENDS Integers, Sequences, FiniteSets

\* ------------------------------------------------------------------ bounds
\* Largest capacity constructed.
MaxCap == 2
\* Total number of items ever put into one buffer (initial contents included).
MaxPushed == 3
\* Longest source slice / iterator handed to push_slice / push_iter and
\* longest destination slice handed to pop_slice.
MaxBatch == 2
\* Largest argument of skip.
MaxSkip == 3
\* The most rewritten items the buffer holds at a time.
MaxRewrites == 1

\* ------------------------------------------------------------ slot contents
\* MaybeUninit::uninit(): a slot that holds no item.
Uninit == 0
\* A slot the producer has begun, and not finished, writing.
Partial == Uninit - 1

VARIABLES
    rb,         \* which buffer type was constructed: "SharedRb" or "RingBuffer"
    capacity,   \* storage.len()
    read,       \* SharedRb.read  (AtomicUsize)
    write,      \* SharedRb.write (AtomicUsize)
    storage,    \* SharedRb.storage: offset -> item, Uninit or Partial
    head,       \* RingBuffer.head (AtomicUsize)
    tail,       \* RingBuffer.tail (AtomicUsize)
    data,       \* RingBuffer.data: offset -> item or Uninit
    pushed,     \* history: items committed to the buffer, in order
    popped,     \* history: items removed by committed consumer operations
    ppc,        \* producer: position inside its current operation
    psrc,       \* producer: items of the current call still to be written
    pa,         \* producer: value its last index load returned
    pslices,    \* producer: vacant slices obtained, as offsets not yet written
    pcount,     \* producer: slots written in the current operation
    pres,       \* producer: result of its last finished call
    cpc,        \* consumer: position inside its current operation
    climit,     \* consumer: length of pop_slice's destination
    ca,         \* consumer: value its last index load returned
    cslices,    \* consumer: occupied slices obtained, as offsets not yet read
    cinit,      \* consumer: PopIter.initial_len
    cbuf,       \* consumer: items taken by the current operation
    cres,       \* consumer: result of its last finished call
    pcall,      \* producer: the call in progress ("none" when idle)
    pslot,      \* producer: offset of the slot being written
    ccall,      \* consumer: the call in progress ("none" when idle)
    ub,         \* an endpoint read or wrote a slot it had no right to
    panicked,   \* the program panicked (an assert!, a remainder by zero)
                \* or was aborted by a precondition check
    giter,      \* the PopIterator of consumer/global.rs, while one exists
    dropped,    \* history: items destroyed in place (drop_in_place), in order
    owners,     \* the endpoints that exist (each holds one Arc of the buffer)
    destroyed,  \* number of times the buffer's Drop has run
    ccount,     \* consumer: the local `count` of skip
    pmode,      \* producer endpoint: "direct", "immediate" or "postponed"
    cmode,      \* consumer endpoint: "direct", "immediate" or "postponed"
    pwrite,     \* cached producer: its local copy of the write index
    pread,      \* cached producer: its snapshot of the read index
    cread,      \* cached consumer: its local copy of the read index
    cwrite,     \* cached consumer: its snapshot of the write index
    pheld,      \* history: items pushed and not yet published
    cheld,      \* history: items popped and not yet committed
    psynced     \* history: number of items published out of postponed mode

sharedVars == <<read, write, storage>>
legacyVars == <<head, tail, data>>
histVars   == <<pushed, popped>>
prodVars   == <<ppc, pcall, psrc, pa, pslices, pslot, pcount, pres>>
consVars   == <<cpc, ccall, climit, ca, cslices, cinit, cbuf, cres>>
lifeVars   == <<giter, dropped, owners, destroyed>>
cacheVars  == <<pmode, cmode, pwrite, pread, cread, cwrite, pheld, cheld,
                psynced>>
vars == <<rb, capacity, read, write, storage, head, tail, data, pushed, popped,
          ppc, pcall, psrc, pa, pslices, pslot, pcount, pres,
          cpc, ccall, climit, ca, cslices, cinit, cbuf, cres, ub, panicked,
          giter, dropped, owners, destroyed, ccount,
          pmode, cmode, pwrite, pread, cread, cwrite, pheld, cheld, psynced>>

\* ------------------------------------------------------------------ helpers
Min(a, b) == IF a <= b THEN a ELSE b

\* The Rust range a..b as the sequence of its offsets (empty when a >= b).
Range(a, b) == [i \in 1..(IF b > a THEN b - a ELSE 0) |-> a + i - 1]

\* Items an endpoint may find in memory it must not read.
Garbage == 0..MaxPushed

\* An item is the serial number it was pushed with.  The holder of a mutable
\* reference may rewrite it: it is the same item, in another form.
Rewritten(v) == v + MaxPushed
Item(v) == IF v > MaxPushed THEN v - MaxPushed ELSE v
Items(s) == [i \in 1..Len(s) |-> Item(s[i])]

IsPrefix(s, t) == Len(s) <= Len(t) /\ SubSeq(t, 1, Len(s)) = s

NoResult == [kind |-> "none", val |-> 0]

\* No PopIterator exists.
NoIter == [live |-> FALSE, start |-> 0, limit |-> 0]

\* Items numbered from+1 .. from+n, the next n items in push order.
Fresh(from, n) == [i \in 1..n |-> from + i]

\* --------------------------------------------------------------- utilities
\* utils::modulus: the range of index values, twice the capacity.
modulus(c) == 2 * c

\* utils::ranges: the projection of the index range [start, end) onto storage
\* offsets: one slice when start and end lie in the same lap over the
\* storage, two slices (up to the end of storage, then from offset 0) when
\* the range wraps.
ranges(c, start, end) ==
    LET head_quo == start \div c
        head_rem == start % c
        tail_quo == end \div c
        tail_rem == end % c
    IN  IF (head_quo + tail_quo) % 2 = 0
        THEN <<Range(head_rem, tail_rem), Range(0, 0)>>
        ELSE <<Range(head_rem, c), Range(0, tail_rem)>>

\* A pair of slices read front to back: first slice, then second slice.
Chain(sl) == sl[1] \o sl[2]

\* -------------------------------------------------------------- SharedRb
\* Each method is given the values its atomic loads returned, in the order
\* the method performs them.

\* Mutant: the difference of the indices taken without the modulus.
SharedRb_occupied_len_unwrapped(w, r) == w - r

\* Mutant: the indices reduced modulo capacity instead of 2 * capacity, so
\* that a full buffer has the same length as an empty one.
SharedRb_occupied_len_single_lap(w, r) == (capacity + w - r) % capacity

\* (modulus + write.load - read.load) % modulus
SharedRb_occupied_len(w, r) ==
    (modulus(capacity) + w - r) % modulus(capacity)

\* Mutant: the whole capacity, whatever the indices are.
SharedRb_vacant_len_whole(r, w) == capacity

\* Mutant: the modulus is added where the code adds the capacity.
SharedRb_vacant_len_modulus(r, w) ==
    (modulus(capacity) + r - w) % modulus(capacity)

\* (capacity + read.load - write.load) % modulus
SharedRb_vacant_len(r, w) ==
    (capacity + r - w) % modulus(capacity)

\* Mutant: the test of is_full taken for the test of is_empty.
SharedRb_is_empty_swapped(r, w) == SharedRb_vacant_len(r, w) = 0

\* read.load == write.load
SharedRb_is_empty(r, w) == r = w

\* is_full: occupied_len() == capacity
SharedRb_is_full(w, r) == SharedRb_occupied_len(w, r) = capacity

\* RingBuffer::unsafe_slices
SharedRb_unsafe_slices(start, end) == ranges(capacity, start, end)

\* Mutant: the vacant region as one slice, without its wrapped part.
SharedRb_vacant_slices_unwrapped(w, r) ==
    <<SharedRb_unsafe_slices(w, r + capacity)[1], <<>>>>

\* unsafe_slices(write.load, read.load + capacity)
SharedRb_vacant_slices(w, r) == SharedRb_unsafe_slices(w, r + capacity)

\* unsafe_slices(read.load, write.load)
SharedRb_occupied_slices(r, w) == SharedRb_unsafe_slices(r, w)

\* Mutant: the write index moved one slot further than was written.
SharedRb_advance_write_index_extra(w, count) ==
    (w + count + 1) % modulus(capacity)

\* Mutant: the write index stored without the reduction modulo 2 * capacity.
SharedRb_advance_write_index_unwrapped(w, count) == w + count

\* The value advance_write_index stores: (write.load + count) % modulus
SharedRb_advance_write_index(w, count) == (w + count) % modulus(capacity)

\* Mutant: the read index moved one slot further than was read.
SharedRb_advance_read_index_extra(r, count) ==
    (r + count + 1) % modulus(capacity)

\* The value advance_read_index stores: (read.load + count) % modulus
SharedRb_advance_read_index(r, count) == (r + count) % modulus(capacity)

\* ------------------------------------------------------------- RingBuffer
\* fn head(): self.head.load(Acquire)
RingBuffer_head == head

\* fn tail(): self.head.load(Acquire)   -- the source loads `head` here
RingBuffer_tail == head

\* fn modulus(): 2 * self.capacity()
RingBuffer_modulus == 2 * capacity

\* `x % self.modulus()` panics when the modulus is zero, which is the case of
\* a buffer built over an empty container.
RingBuffer_remainder_panics == RingBuffer_modulus = 0

RingBuffer_occupied_len ==
    (RingBuffer_modulus + RingBuffer_tail - RingBuffer_head) % RingBuffer_modulus

RingBuffer_vacant_len ==
    (RingBuffer_modulus + RingBuffer_head - RingBuffer_tail - capacity)
        % RingBuffer_modulus

\* RingBufferBase::is_empty / is_full (provided methods)
RingBufferBase_is_empty == RingBuffer_occupied_len = 0
RingBufferBase_is_full == RingBuffer_vacant_len = 0

RingBuffer_occupied_slices ==
    LET h == RingBuffer_head
        t == RingBuffer_tail
        len == capacity
    IN  IF h < t THEN <<Range(h % len, t % len), Range(0, 0)>>
        ELSE IF h > t THEN <<Range(h % len, len), Range(0, t % len)>>
        ELSE <<Range(0, 0), Range(0, 0)>>

RingBuffer_vacant_slices ==
    LET h == RingBuffer_head
        t == RingBuffer_tail
        len == capacity
    IN  IF h < t THEN <<Range(t % len, len), Range(0, h % len)>>
        ELSE IF h > t THEN <<Range(t % len, h % len), Range(0, 0)>>
        ELSE <<Range(0, 0), Range(0, 0)>>

\* move_head(count): assert!(count <= occupied_len()), then
\* head.store((head() + count) % modulus())
RingBuffer_move_head(count) ==
    IF ~RingBuffer_remainder_panics /\ count <= RingBuffer_occupied_len
    THEN /\ head' = (RingBuffer_head + count) % RingBuffer_modulus
         /\ panicked' = panicked
    ELSE /\ head' = head
         /\ panicked' = TRUE

\* move_tail(count): assert!(count <= vacant_len()), then
\* tail.store((tail() + count) % modulus())
RingBuffer_move_tail(count) ==
    IF ~RingBuffer_remainder_panics /\ count <= RingBuffer_vacant_len
    THEN /\ tail' = (RingBuffer_tail + count) % RingBuffer_modulus
         /\ panicked' = panicked
    ELSE /\ tail' = tail
         /\ panicked' = TRUE

\* ------------------------------------------------------------ construction
\* The storage a caller of from_raw_parts(storage, first, first + n) must
\* supply: the n slots from offset first % c on hold items 1..n in order, all
\* others are uninitialized.
RawStorage(c, first, n) ==
    [i \in 0..(c - 1) |->
        LET k == (i - first) % c IN IF k < n THEN k + 1 ELSE Uninit]

EmptyStorage(c) == [i \in 0..(c - 1) |-> Uninit]

\* SharedRb::from_raw_parts(storage, read, write); new(capacity) is the case
\* read = write = 0.
SharedRb_from_raw_parts(c, r, n) ==
    /\ rb = "SharedRb"
    /\ capacity = c
    /\ read = r
    /\ write = (r + n) % modulus(c)
    /\ storage = RawStorage(c, r, n)
    /\ head = 0 /\ tail = 0 /\ data = EmptyStorage(c)
    /\ pushed = Fresh(0, n)

\* RingBuffer::from_raw_parts(container, head, tail); new(capacity) is the
\* case head = tail = 0.
RingBuffer_from_raw_parts(c, h, n) ==
    /\ rb = "RingBuffer"
    /\ capacity = c
    /\ head = h
    /\ tail = (h + n) % (2 * c)
    /\ data = RawStorage(c, h, n)
    /\ read = 0 /\ write = 0 /\ storage = EmptyStorage(c)
    /\ pushed = Fresh(0, n)

\* No call has been made yet on either endpoint.
EndpointsIdle ==
    /\ popped = <<>>
    /\ ppc = "idle" /\ pcall = "none" /\ psrc = <<>> /\ pa = 0
    /\ pslices = <<<<>>, <<>>>> /\ pslot = 0 /\ pcount = 0 /\ pres = NoResult
    /\ cpc = "idle" /\ ccall = "none" /\ climit = 0 /\ ca = 0
    /\ cslices = <<<<>>, <<>>>> /\ cinit = 0 /\ cbuf = <<>> /\ cres = NoResult
    /\ ub = FALSE
    /\ panicked = FALSE
    /\ giter = NoIter
    /\ dropped = <<>>
    /\ owners = {"producer", "consumer"}
    /\ destroyed = 0
    /\ ccount = 0
    /\ pheld = <<>> /\ cheld = <<>> /\ psynced = 0

\* The buffer is built and split into a Producer and a Consumer that work
\* on the shared indices directly.
Init ==
    /\ \E c \in 1..MaxCap : \E first \in 0..(2 * c - 1) : \E n \in 0..c :
          \/ SharedRb_from_raw_parts(c, first, n)
          \/ RingBuffer_from_raw_parts(c, first, n)
    /\ EndpointsIdle
    /\ pmode = "direct" /\ cmode = "direct"
    /\ pwrite = 0 /\ pread = 0 /\ cread = 0 /\ cwrite = 0

\* ===================================================== SharedRb: producer
Running == ~panicked

Ok == [kind |-> "Ok", val |-> 0]
Err(item) == [kind |-> "Err", val |-> item]
Count(n) == [kind |-> "Count", val |-> n]
Some(item) == [kind |-> "Some", val |-> item]
None == [kind |-> "None", val |-> 0]
Length(n) == [kind |-> "Len", val |-> n]
IoError == [kind |-> "IoError", val |-> 0]

\* Producer::try_push(elem) is called.  It begins with is_full().
try_push ==
    /\ Running /\ rb = "SharedRb" /\ ppc = "idle"
    /\ "producer" \in owners
    /\ Len(pushed) < MaxPushed
    /\ pcall' = "try_push"
    /\ psrc' = Fresh(Len(pushed), 1)
    /\ pcount' = 0
    /\ ppc' = "is_full_write"
    /\ UNCHANGED <<cacheVars, rb, capacity, lifeVars, ccount, sharedVars, legacyVars, histVars, consVars,
                   pa, pslices, pslot, pres, ub, panicked>>

\* is_full -> occupied_len: the load of `write`.
is_full_load_write ==
    /\ Running /\ ppc = "is_full_write"
    /\ pa' = write
    /\ ppc' = "is_full_read"
    /\ UNCHANGED <<cacheVars, rb, capacity, lifeVars, ccount, sharedVars, legacyVars, histVars, consVars,
                   pcall, psrc, pslices, pslot, pcount, pres, ub, panicked>>

\* is_full -> occupied_len: the load of `read`, and try_push's branch on the
\* result: a full buffer hands the item back.
is_full_load_read ==
    /\ Running /\ ppc = "is_full_read"
    /\ IF SharedRb_is_full(pa, read)
       THEN /\ pres' = Err(psrc[1])
            /\ ppc' = "done"
            /\ pa' = 0
       ELSE /\ ppc' = "vacant_write"
            /\ UNCHANGED <<pres, pa>>
    /\ UNCHANGED <<cacheVars, rb, capacity, lifeVars, ccount, sharedVars, legacyVars, histVars, consVars,
                   pcall, psrc, pslices, pslot, pcount, ub, panicked>>

\* Producer::push_slice(elems) is called with a slice of n items.
push_slice ==
    /\ Running /\ rb = "SharedRb" /\ ppc = "idle"
    /\ "producer" \in owners
    /\ \E n \in 1..MaxBatch :
          /\ Len(pushed) + n <= MaxPushed
          /\ psrc' = Fresh(Len(pushed), n)
    /\ pcall' = "push_slice"
    /\ pcount' = 0
    /\ ppc' = "vacant_write"
    /\ UNCHANGED <<cacheVars, rb, capacity, lifeVars, ccount, sharedVars, legacyVars, histVars, consVars,
                   pa, pslices, pslot, pres, ub, panicked>>

\* Producer::push_iter(iter) is called with an iterator holding n items.
push_iter ==
    /\ Running /\ rb = "SharedRb" /\ ppc = "idle"
    /\ "producer" \in owners
    /\ \E n \in 1..MaxBatch :
          /\ Len(pushed) + n <= MaxPushed
          /\ psrc' = Fresh(Len(pushed), n)
    /\ pcall' = "push_iter"
    /\ pcount' = 0
    /\ ppc' = "vacant_write"
    /\ UNCHANGED <<cacheVars, rb, capacity, lifeVars, ccount, sharedVars, legacyVars, histVars, consVars,
                   pa, pslices, pslot, pres, ub, panicked>>

\* Producer::read_from(reader, count) is called.  The reader has n bytes to
\* deliver within `count`; they go into the first vacant slice only.
Producer_read_from ==
    /\ Running /\ rb = "SharedRb" /\ ppc = "idle"
    /\ "producer" \in owners
    /\ \E n \in 0..MaxBatch :
          /\ Len(pushed) + n <= MaxPushed
          /\ psrc' = Fresh(Len(pushed), n)
    /\ pcall' = "read_from"
    /\ pcount' = 0
    /\ ppc' = "vacant_write"
    /\ UNCHANGED <<cacheVars, rb, capacity, lifeVars, ccount, sharedVars, legacyVars, histVars, consVars,
                   pa, pslices, pslot, pres, ub, panicked>>

\* io::Write::write(buffer) of the producer is called with n bytes: a
\* push_slice whose result is an io::Result.
Write_write ==
    /\ Running /\ rb = "SharedRb" /\ ppc = "idle"
    /\ "producer" \in owners
    /\ \E n \in 1..MaxBatch :
          /\ Len(pushed) + n <= MaxPushed
          /\ psrc' = Fresh(Len(pushed), n)
    /\ pcall' = "write"
    /\ pcount' = 0
    /\ ppc' = "vacant_write"
    /\ UNCHANGED <<cacheVars, rb, capacity, lifeVars, ccount, sharedVars, legacyVars, histVars, consVars,
                   pa, pslices, pslot, pres, ub, panicked>>

\* Producer::transfer_from(consumer, count) is called with the consumer of
\* another buffer, which has n items to give within `count`.
Producer_transfer_from ==
    /\ Running /\ rb = "SharedRb" /\ ppc = "idle"
    /\ "producer" \in owners
    /\ \E n \in 0..MaxBatch :
          /\ Len(pushed) + n <= MaxPushed
          /\ psrc' = Fresh(Len(pushed), n)
    /\ pcall' = "transfer_from"
    /\ pcount' = 0
    /\ ppc' = "vacant_write"
    /\ UNCHANGED <<cacheVars, rb, capacity, lifeVars, ccount, sharedVars, legacyVars, histVars, consVars,
                   pa, pslices, pslot, pres, ub, panicked>>

\* The vacant slices a call fills: read_from hands the reader the first
\* slice alone, every other call walks both.
FilledSlices(sl) == IF pcall = "read_from" THEN <<sl[1], <<>>>> ELSE sl

\* vacant_slices_mut: the load of `write`.
vacant_load_write ==
    /\ Running /\ ppc = "vacant_write"
    /\ pa' = write
    /\ ppc' = "vacant_read"
    /\ UNCHANGED <<cacheVars, rb, capacity, lifeVars, ccount, sharedVars, legacyVars, histVars, consVars,
                   pcall, psrc, pslices, pslot, pcount, pres, ub, panicked>>

\* vacant_slices_mut: the load of `read`; the slices are now known.
vacant_load_read ==
    /\ Running /\ ppc = "vacant_read"
    /\ pslices' = FilledSlices(SharedRb_vacant_slices(pa, read))
    /\ ppc' = "fill"
    /\ UNCHANGED <<cacheVars, rb, capacity, lifeVars, ccount, sharedVars, legacyVars, histVars, consVars,
                   pcall, psrc, pa, pslot, pcount, pres, ub, panicked>>

\* The slot try_push writes: vacant_slices_mut().0.get_unchecked_mut(0).
try_push_slot(sl) == sl[1][1]

\* The write into the chosen slot begins.
fill_begin_writes ==
    /\ storage' = [storage EXCEPT ![pslot'] = Partial]
    /\ ppc' = "fill_end"
    /\ panicked' = panicked

\* The producer starts writing the next item into its slot.  try_push writes
\* one item, into the first slot of the first slice without a bounds check;
\* push_slice and push_iter walk the first slice, then the second, while
\* the source has items.
fill_begin ==
    /\ Running /\ ppc = "fill"
    /\ IF pcall = "try_push"
       THEN /\ pcount = 0
            /\ IF pslices[1] # <<>>
               THEN /\ pslot' = try_push_slot(pslices)
                    /\ ub' = ub
                    /\ fill_begin_writes
               ELSE /\ ub' = TRUE
                    /\ \/ /\ pslot' \in 0..(capacity - 1)
                          /\ fill_begin_writes
                       \/ /\ panicked' = TRUE
                          /\ UNCHANGED <<pslot, storage, ppc>>
            /\ pslices' = pslices
       ELSE /\ pcount < Len(psrc)
            /\ Chain(pslices) # <<>>
            /\ pslot' = Head(Chain(pslices))
            /\ pslices' = IF pslices[1] # <<>>
                          THEN <<Tail(pslices[1]), pslices[2]>>
                          ELSE <<pslices[1], Tail(pslices[2])>>
            /\ ub' = ub
            /\ fill_begin_writes
    /\ UNCHANGED <<cacheVars, rb, capacity, lifeVars, ccount, read, write, legacyVars, histVars, consVars,
                   pcall, psrc, pa, pcount, pres>>

\* Mutant: each item is published as soon as it is written.
fill_end_publishing ==
    /\ Running /\ ppc = "fill_end"
    /\ storage' = [storage EXCEPT ![pslot] = psrc[pcount + 1]]
    /\ write' = SharedRb_advance_write_index(write, 1)
    /\ pcount' = pcount + 1
    /\ ppc' = "fill"
    /\ UNCHANGED <<cacheVars, rb, capacity, lifeVars, ccount, read, legacyVars, histVars,
                   consVars, pcall, psrc, pa, pslices, pslot, pres, ub,
                   panicked>>

\* The write of the item completes.
fill_end ==
    /\ Running /\ ppc = "fill_end"
    /\ storage' = [storage EXCEPT ![pslot] = psrc[pcount + 1]]
    /\ pcount' = pcount + 1
    /\ ppc' = "fill"
    /\ UNCHANGED <<cacheVars, rb, capacity, lifeVars, ccount, read, write, legacyVars, histVars, consVars,
                   pcall, psrc, pa, pslices, pslot, pres, ub, panicked>>

\* Mutant: the copy loop may stop although the source has items and the
\* vacant slices have room.
fill_done_early ==
    /\ Running /\ ppc = "fill"
    /\ IF pcall = "try_push" THEN pcount = 1 ELSE TRUE
    /\ ppc' = "advance_write_load"
    /\ UNCHANGED <<cacheVars, rb, capacity, lifeVars, ccount, sharedVars, legacyVars, histVars,
                   consVars, pcall, psrc, pa, pslices, pslot, pcount, pres, ub,
                   panicked>>

\* Mutant: a batch push goes on only when every item of the source is in.
fill_done_waiting ==
    /\ Running /\ ppc = "fill"
    /\ IF pcall = "try_push" THEN pcount = 1 ELSE pcount = Len(psrc)
    /\ ppc' = "advance_write_load"
    /\ UNCHANGED <<cacheVars, rb, capacity, lifeVars, ccount, sharedVars,
                   legacyVars, histVars, consVars, pcall, psrc, pa, pslices,
                   pslot, pcount, pres, ub, panicked>>

\* Nothing more to write: the source is exhausted or the slices are used up;
\* the call goes on to advance_write_index(count).
fill_done ==
    /\ Running /\ ppc = "fill"
    /\ IF pcall = "try_push"
       THEN pcount = 1
       ELSE pcount = Len(psrc) \/ Chain(pslices) = <<>>
    /\ ppc' = "advance_write_load"
    /\ UNCHANGED <<cacheVars, rb, capacity, lifeVars, ccount, sharedVars, legacyVars, histVars, consVars,
                   pcall, psrc, pa, pslices, pslot, pcount, pres, ub,
                   panicked>>

\* The reader of read_from fails: the error is handed on and `write` stays.
Producer_read_from_error ==
    /\ Running /\ ppc = "fill" /\ pcall = "read_from" /\ pcount = 0
    /\ pres' = IoError
    /\ ppc' = "done"
    /\ pslices' = <<<<>>, <<>>>>
    /\ pa' = 0
    /\ UNCHANGED <<cacheVars, rb, capacity, lifeVars, ccount, sharedVars, legacyVars, histVars, consVars,
                   pcall, psrc, pslot, pcount, ub, panicked>>

\* What a producer call returns after advance_write_index(count).
\* Write::write reports WouldBlock when nothing of a non-empty buffer fit.
ProducerResult(count) ==
    CASE pcall = "try_push" -> Ok
      [] pcall = "write" /\ count = 0 /\ psrc # <<>> -> IoError
      [] OTHER -> Count(count)

\* advance_write_index: the load of `write`.
advance_write_load ==
    /\ Running /\ ppc = "advance_write_load"
    /\ pa' = write
    /\ ppc' = "advance_write_store"
    /\ UNCHANGED <<cacheVars, rb, capacity, lifeVars, ccount, sharedVars, legacyVars, histVars, consVars,
                   pcall, psrc, pslices, pslot, pcount, pres, ub, panicked>>

\* advance_write_index: the release store of `write`; the call returns.
advance_write_store ==
    /\ Running /\ ppc = "advance_write_store"
    /\ write' = SharedRb_advance_write_index(pa, pcount)
    /\ pushed' = pushed \o Items(SubSeq(psrc, 1, pcount))
    /\ pres' = ProducerResult(pcount)
    /\ ppc' = "done"
    /\ pcount' = 0
    /\ pslices' = <<<<>>, <<>>>>
    /\ pa' = 0
    /\ pslot' = 0
    /\ UNCHANGED <<cacheVars, rb, capacity, lifeVars, ccount, read, storage, legacyVars, popped, consVars,
                   pcall, psrc, ub, panicked>>

\* The call has returned its result to the caller; the producer is idle again.
producer_return ==
    /\ Running /\ ppc = "done" /\ pcall # "transfer"
    /\ ppc' = "idle"
    /\ pcall' = "none"
    /\ psrc' = <<>>
    /\ pres' = NoResult
    /\ UNCHANGED <<cacheVars, rb, capacity, lifeVars, ccount, sharedVars, legacyVars, histVars, consVars,
                   pa, pslices, pslot, pcount, ub, panicked>>

ProducerStep ==
    \/ try_push \/ is_full_load_write \/ is_full_load_read
    \/ push_slice \/ push_iter
    \/ Producer_read_from \/ Write_write \/ Producer_transfer_from
    \/ Producer_read_from_error
    \/ vacant_load_write \/ vacant_load_read
    \/ fill_begin \/ fill_end \/ fill_done
    \/ advance_write_load \/ advance_write_store
    \/ producer_return

\* ===================================================== SharedRb: consumer
\* What a read of slot k returns (assume_init_read).  A slot holding an item
\* yields it; a slot that is uninitialized or half-written yields anything.
SlotValues(k) ==
    IF k \in DOMAIN storage /\ storage[k] # Uninit /\ storage[k] # Partial
    THEN {storage[k]}
    ELSE Garbage

SlotReadable(k) ==
    k \in DOMAIN storage /\ storage[k] # Uninit /\ storage[k] # Partial

\* The storage after the item of slot k was moved out of it.
MovedOut(k) ==
    IF k \in DOMAIN storage THEN [storage EXCEPT ![k] = Uninit] ELSE storage

\* Consumer::try_pop() is called.  It begins with is_empty().
try_pop ==
    /\ Running /\ rb = "SharedRb" /\ cpc = "idle"
    /\ "consumer" \in owners /\ ~giter.live
    /\ ccall' = "try_pop"
    /\ cbuf' = <<>>
    /\ cpc' = "is_empty_read"
    /\ UNCHANGED <<cacheVars, rb, capacity, lifeVars, ccount, sharedVars, legacyVars, histVars, prodVars,
                   climit, ca, cslices, cinit, cres, ub, panicked>>

\* is_empty: the load of `read`.
is_empty_load_read ==
    /\ Running /\ cpc = "is_empty_read"
    /\ ca' = read
    /\ cpc' = "is_empty_write"
    /\ UNCHANGED <<cacheVars, rb, capacity, lifeVars, ccount, sharedVars, legacyVars, histVars, prodVars,
                   ccall, climit, cslices, cinit, cbuf, cres, ub, panicked>>

\* is_empty: the load of `write`, and try_pop's branch on the result: an
\* empty buffer yields None.
is_empty_load_write ==
    /\ Running /\ cpc = "is_empty_write"
    /\ IF SharedRb_is_empty(ca, write)
       THEN /\ cres' = None
            /\ cpc' = "done"
            /\ ca' = 0
       ELSE /\ cpc' = "occupied_read"
            /\ UNCHANGED <<cres, ca>>
    /\ UNCHANGED <<cacheVars, rb, capacity, lifeVars, ccount, sharedVars, legacyVars, histVars, prodVars,
                   ccall, climit, cslices, cinit, cbuf, ub, panicked>>

\* Consumer::pop_slice(elems) is called with a destination of n places.
pop_slice ==
    /\ Running /\ rb = "SharedRb" /\ cpc = "idle"
    /\ "consumer" \in owners /\ ~giter.live
    /\ climit' \in 1..MaxBatch
    /\ ccall' = "pop_slice"
    /\ cbuf' = <<>>
    /\ cpc' = "occupied_read"
    /\ UNCHANGED <<cacheVars, rb, capacity, lifeVars, ccount, sharedVars, legacyVars, histVars, prodVars,
                   ca, cslices, cinit, cres, ub, panicked>>

\* Consumer::pop_iter() is called: PopIter::new takes the occupied slices.
pop_iter ==
    /\ Running /\ rb = "SharedRb" /\ cpc = "idle"
    /\ "consumer" \in owners /\ ~giter.live
    /\ ccall' = "pop_iter"
    /\ cbuf' = <<>>
    /\ cpc' = "occupied_read"
    /\ UNCHANGED <<cacheVars, rb, capacity, lifeVars, ccount, sharedVars, legacyVars, histVars, prodVars,
                   climit, ca, cslices, cinit, cres, ub, panicked>>

\* Consumer::write_into(writer, count) is called.  The writer accepts n bytes
\* within `count`; they come from the first occupied slice only.
Consumer_write_into ==
    /\ Running /\ rb = "SharedRb" /\ cpc = "idle"
    /\ "consumer" \in owners /\ ~giter.live
    /\ climit' \in 0..MaxBatch
    /\ ccall' = "write_into"
    /\ cbuf' = <<>>
    /\ cpc' = "occupied_read"
    /\ UNCHANGED <<cacheVars, rb, capacity, lifeVars, ccount, sharedVars, legacyVars, histVars, prodVars,
                   ca, cslices, cinit, cres, ub, panicked>>

\* io::Read::read(buffer) of the consumer is called with room for n bytes: a
\* pop_slice whose result is an io::Result.
Read_read ==
    /\ Running /\ rb = "SharedRb" /\ cpc = "idle"
    /\ "consumer" \in owners /\ ~giter.live
    /\ climit' \in 1..MaxBatch
    /\ ccall' = "read"
    /\ cbuf' = <<>>
    /\ cpc' = "occupied_read"
    /\ UNCHANGED <<cacheVars, rb, capacity, lifeVars, ccount, sharedVars, legacyVars, histVars, prodVars,
                   ca, cslices, cinit, cres, ub, panicked>>

\* Consumer::transfer_to(producer, count) is called with the producer of
\* another buffer, which has room for n items within `count`.
Consumer_transfer_to ==
    /\ Running /\ rb = "SharedRb" /\ cpc = "idle"
    /\ "consumer" \in owners /\ ~giter.live
    /\ climit' \in 0..MaxBatch
    /\ ccall' = "transfer_to"
    /\ cbuf' = <<>>
    /\ cpc' = "occupied_read"
    /\ UNCHANGED <<cacheVars, rb, capacity, lifeVars, ccount, sharedVars, legacyVars, histVars, prodVars,
                   ca, cslices, cinit, cres, ub, panicked>>

\* Consumer::as_mut_slices() is called: occupied_slices_mut, then the two
\* slices are lent to the caller as initialized items.
as_mut_slices ==
    /\ Running /\ rb = "SharedRb" /\ cpc = "idle"
    /\ "consumer" \in owners /\ ~giter.live
    /\ ccall' = "as_mut_slices"
    /\ cbuf' = <<>>
    /\ cpc' = "occupied_read"
    /\ UNCHANGED <<cacheVars, rb, capacity, lifeVars, ccount, sharedVars, legacyVars, histVars, prodVars,
                   climit, ca, cslices, cinit, cres, ub, panicked>>

\* Consumer::iter_mut() is called: as_mut_slices(), then the chain of the
\* two slices' iterators.
iter_mut ==
    /\ Running /\ rb = "SharedRb" /\ cpc = "idle"
    /\ "consumer" \in owners /\ ~giter.live
    /\ ccall' = "iter_mut"
    /\ cbuf' = <<>>
    /\ cpc' = "occupied_read"
    /\ UNCHANGED <<cacheVars, rb, capacity, lifeVars, ccount, sharedVars, legacyVars, histVars, prodVars,
                   climit, ca, cslices, cinit, cres, ub, panicked>>

\* The calls that copy a bounded number of items out, oldest first.
SliceTakers == {"pop_slice", "write_into", "read", "transfer_to", "transfer"}

\* The calls that lend the occupied slices and remove nothing.
Borrowers == {"as_mut_slices", "iter_mut"}

\* The occupied slices a call works on: write_into hands the writer the
\* first slice alone, every other call walks both.
TakenSlices(sl) == IF ccall = "write_into" THEN <<sl[1], <<>>>> ELSE sl

\* occupied_slices: the load of `read`.
occupied_load_read ==
    /\ Running /\ cpc = "occupied_read"
    /\ ca' = read
    /\ cpc' = "occupied_write"
    /\ UNCHANGED <<cacheVars, rb, capacity, lifeVars, ccount, sharedVars, legacyVars, histVars, prodVars,
                   ccall, climit, cslices, cinit, cbuf, cres, ub, panicked>>

\* occupied_slices: the load of `write`; the slices are now known.
\* PopIter::new records initial_len = slices.0.len() + slices.1.len().
occupied_load_write ==
    /\ Running /\ cpc = "occupied_write"
    /\ cslices' = TakenSlices(SharedRb_occupied_slices(ca, write))
    /\ cinit' = Len(cslices'[1]) + Len(cslices'[2])
    /\ cpc' = IF ccall \in Borrowers THEN "borrowed" ELSE "take"
    /\ UNCHANGED <<cacheVars, rb, capacity, lifeVars, ccount, sharedVars, legacyVars, histVars, prodVars,
                   ccall, climit, ca, cbuf, cres, ub, panicked>>

\* Mutant: the newest item of the first slice instead of the oldest.
try_pop_slot_latest(sl) == sl[1][Len(sl[1])]

\* The slot try_pop reads: occupied_slices().0.get_unchecked(0).
try_pop_slot(sl) == sl[1][1]

\* try_pop moves the item out of its slot.  The slice is not bounds-checked:
\* get_unchecked(0) on an empty first slice is undefined.  A build without
\* the precondition check reads whatever lies there and goes on; a build
\* with it aborts the process at the access.
try_pop_read ==
    /\ Running /\ cpc = "take" /\ ccall = "try_pop" /\ cbuf = <<>>
    /\ IF cslices[1] # <<>>
       THEN LET k == try_pop_slot(cslices) IN
            /\ \E v \in SlotValues(k) : cbuf' = <<v>>
            /\ ub' = (ub \/ ~SlotReadable(k))
            /\ storage' = MovedOut(k)
            /\ cpc' = "advance_read_load"
            /\ panicked' = panicked
       ELSE /\ ub' = TRUE
            /\ storage' = storage
            /\ \/ /\ \E v \in Garbage : cbuf' = <<v>>
                  /\ cpc' = "advance_read_load"
                  /\ panicked' = panicked
               \/ /\ panicked' = TRUE
                  /\ UNCHANGED <<cbuf, cpc>>
    /\ UNCHANGED <<cacheVars, rb, capacity, lifeVars, ccount, read, write, legacyVars, histVars, prodVars,
                   ccall, climit, ca, cslices, cinit, cres>>

\* pop_slice copies min(len of destination, occupied) items, first slice
\* then second slice.
pop_slice_copy ==
    /\ Running /\ cpc = "take" /\ ccall \in SliceTakers
    /\ Len(cbuf) < Min(climit, cinit)
    /\ LET k == Head(Chain(cslices)) IN
          /\ \E v \in SlotValues(k) : cbuf' = Append(cbuf, v)
          /\ ub' = (ub \/ ~SlotReadable(k))
          /\ storage' = MovedOut(k)
    /\ cslices' = IF cslices[1] # <<>>
                  THEN <<Tail(cslices[1]), cslices[2]>>
                  ELSE <<cslices[1], Tail(cslices[2])>>
    /\ UNCHANGED <<cacheVars, rb, capacity, lifeVars, ccount, read, write, legacyVars, histVars, prodVars,
                   cpc, ccall, climit, ca, cinit, cres, panicked>>

pop_slice_done ==
    /\ Running /\ cpc = "take" /\ ccall \in SliceTakers
    /\ Len(cbuf) = Min(climit, cinit)
    /\ cpc' = "advance_read_load"
    /\ UNCHANGED <<cacheVars, rb, capacity, lifeVars, ccount, sharedVars, legacyVars, histVars, prodVars,
                   ccall, climit, ca, cslices, cinit, cbuf, cres, ub,
                   panicked>>

\* The writer of write_into fails: the error is handed on, nothing was
\* written and `read` stays.
Consumer_write_into_error ==
    /\ Running /\ cpc = "take" /\ ccall = "write_into" /\ cbuf = <<>>
    /\ cres' = IoError
    /\ cpc' = "done"
    /\ cslices' = <<<<>>, <<>>>>
    /\ cinit' = 0
    /\ climit' = 0
    /\ ca' = 0
    /\ UNCHANGED <<cacheVars, rb, capacity, lifeVars, ccount, sharedVars, legacyVars, histVars, prodVars,
                   ccall, cbuf, ub, panicked>>

\* The number of rewritten items the buffer holds.
Rewrites == Cardinality({k \in DOMAIN storage : storage[k] > MaxPushed})

\* The item of slot k is rewritten in place through the mutable reference.
RewriteSlot(k) == storage' = [storage EXCEPT ![k] = Rewritten(storage[k])]

\* The holder of the slices of as_mut_slices rewrites one of the items.
as_mut_slices_write ==
    /\ Running /\ cpc = "borrowed" /\ ccall = "as_mut_slices"
    /\ Rewrites < MaxRewrites
    /\ \E i \in 1..Len(Chain(cslices)) :
          LET k == Chain(cslices)[i] IN
          /\ SlotReadable(k) /\ storage[k] <= MaxPushed
          /\ RewriteSlot(k)
    /\ UNCHANGED <<cacheVars, rb, capacity, lifeVars, ccount, read, write, legacyVars, histVars, prodVars,
                   consVars, ub, panicked>>

\* IterMut::next yields a mutable reference to the next item, first slice
\* then second slice; the caller rewrites the item or leaves it.  A slot
\* that holds no item is handed out as one all the same.
IterMut_next ==
    /\ Running /\ cpc = "borrowed" /\ ccall = "iter_mut"
    /\ Chain(cslices) # <<>>
    /\ LET k == Head(Chain(cslices)) IN
          /\ ub' = (ub \/ ~SlotReadable(k))
          /\ \/ UNCHANGED storage
             \/ /\ Rewrites < MaxRewrites
                /\ SlotReadable(k) /\ storage[k] <= MaxPushed
                /\ RewriteSlot(k)
    /\ cslices' = IF cslices[1] # <<>>
                  THEN <<Tail(cslices[1]), cslices[2]>>
                  ELSE <<cslices[1], Tail(cslices[2])>>
    /\ UNCHANGED <<cacheVars, rb, capacity, lifeVars, ccount, read, write, legacyVars, histVars, prodVars,
                   cpc, ccall, climit, ca, cinit, cbuf, cres, panicked>>

\* The borrow of as_mut_slices or iter_mut ends; `read` has not moved.
borrow_end ==
    /\ Running /\ cpc = "borrowed"
    /\ cpc' = "idle"
    /\ ccall' = "none"
    /\ cslices' = <<<<>>, <<>>>>
    /\ cinit' = 0
    /\ ca' = 0
    /\ UNCHANGED <<cacheVars, rb, capacity, lifeVars, ccount, sharedVars, legacyVars, histVars, prodVars,
                   climit, cbuf, cres, ub, panicked>>

\* PopIter::next: match self.slices.0.len() { 0 => None, n => first item of
\* slices.0; if n == 1 the second slice becomes the first }.
PopIter_next ==
    /\ Running /\ cpc = "take" /\ ccall = "pop_iter"
    /\ Len(cslices[1]) # 0
    /\ LET k == cslices[1][1]
           n == Len(cslices[1])
       IN /\ \E v \in SlotValues(k) : cbuf' = Append(cbuf, v)
          /\ ub' = (ub \/ ~SlotReadable(k))
          /\ storage' = MovedOut(k)
          /\ cslices' = IF n = 1
                        THEN <<cslices[2], <<>>>>
                        ELSE <<SubSeq(cslices[1], 2, n), cslices[2]>>
    /\ UNCHANGED <<cacheVars, rb, capacity, lifeVars, ccount, read, write, legacyVars, histVars, prodVars,
                   cpc, ccall, climit, ca, cinit, cres, panicked>>

\* ExactSizeIterator::len of PopIter
PopIter_len == Len(cslices[1]) + Len(cslices[2])

\* PopIter::drop, at any point of the iteration:
\* move_read_end(initial_len - len()) follows.
PopIter_drop ==
    /\ Running /\ cpc = "take" /\ ccall = "pop_iter"
    /\ cpc' = "advance_read_load"
    /\ UNCHANGED <<cacheVars, rb, capacity, lifeVars, ccount, sharedVars, legacyVars, histVars, prodVars,
                   ccall, climit, ca, cslices, cinit, cbuf, cres, ub,
                   panicked>>

\* Mutant: skip does not bound its argument by the occupied length.
skip_count_unbounded(n, len) == n

\* let count = cmp::min(count, self.occupied_len())
skip_count(n, len) == Min(n, len)

\* Consumer::skip(count) is called.  It begins with occupied_len().
skip ==
    /\ Running /\ rb = "SharedRb" /\ cpc = "idle"
    /\ "consumer" \in owners /\ ~giter.live
    /\ climit' \in 0..MaxSkip
    /\ ccall' = "skip"
    /\ cbuf' = <<>>
    /\ cpc' = "skip_len_write"
    /\ UNCHANGED <<cacheVars, rb, capacity, lifeVars, ccount, sharedVars, legacyVars,
                   histVars, prodVars, ca, cslices, cinit, cres, ub, panicked>>

\* skip -> occupied_len: the load of `write`.
skip_len_load_write ==
    /\ Running /\ cpc = "skip_len_write"
    /\ ca' = write
    /\ cpc' = "skip_len_read"
    /\ UNCHANGED <<cacheVars, rb, capacity, lifeVars, ccount, sharedVars, legacyVars,
                   histVars, prodVars, ccall, climit, cslices, cinit, cbuf,
                   cres, ub, panicked>>

\* skip -> occupied_len: the load of `read`; count is now known, and
\* RawRb::skip(Some(count)) begins.
skip_len_load_read ==
    /\ Running /\ cpc = "skip_len_read"
    /\ ccount' = skip_count(climit, SharedRb_occupied_len(ca, read))
    /\ climit' = 0
    /\ ca' = 0
    /\ cpc' = "occupied_read"
    /\ UNCHANGED <<cacheVars, rb, capacity, lifeVars, sharedVars, legacyVars, histVars,
                   prodVars, ccall, cslices, cinit, cbuf, cres, ub, panicked>>

\* Consumer::clear() is called: RawRb::skip(None).
clear ==
    /\ Running /\ rb = "SharedRb" /\ cpc = "idle"
    /\ "consumer" \in owners /\ ~giter.live
    /\ ccall' = "clear"
    /\ cbuf' = <<>>
    /\ cpc' = "occupied_read"
    /\ UNCHANGED <<cacheVars, rb, capacity, lifeVars, ccount, sharedVars, legacyVars,
                   histVars, prodVars, climit, ca, cslices, cinit, cres, ub,
                   panicked>>

\* Mutant: skip(None) destroys one item at most.
RawRb_skip_limit_one ==
    IF ccall = "skip" THEN Min(ccount, cinit) ELSE Min(1, cinit)

\* RawRb::skip(count_or_all): the number of items to destroy, the given count
\* as far as the occupied slices reach, or all of them for None.
RawRb_skip_limit ==
    IF ccall = "skip" THEN Min(ccount, cinit) ELSE cinit

\* RawRb::skip destroys the next item in place (drop_in_place), first slice
\* then second slice.
RawRb_skip_drop_in_place ==
    /\ Running /\ cpc = "take" /\ ccall \in {"skip", "clear", "drop"}
    /\ Len(cbuf) < RawRb_skip_limit
    /\ LET k == Head(Chain(cslices)) IN
          /\ \E v \in SlotValues(k) :
                /\ cbuf' = Append(cbuf, v)
                /\ dropped' = Append(dropped, Item(v))
          /\ ub' = (ub \/ ~SlotReadable(k))
          /\ storage' = MovedOut(k)
    /\ cslices' = IF cslices[1] # <<>>
                  THEN <<Tail(cslices[1]), cslices[2]>>
                  ELSE <<cslices[1], Tail(cslices[2])>>
    /\ UNCHANGED <<cacheVars, rb, capacity, giter, owners, destroyed, ccount, read, write,
                   legacyVars, histVars, prodVars, cpc, ccall, climit, ca,
                   cinit, cres, panicked>>

\* All items to destroy are destroyed; advance_read_index(number) follows.
RawRb_skip_done ==
    /\ Running /\ cpc = "take" /\ ccall \in {"skip", "clear", "drop"}
    /\ Len(cbuf) = RawRb_skip_limit
    /\ cpc' = "advance_read_load"
    /\ UNCHANGED <<cacheVars, rb, capacity, lifeVars, ccount, sharedVars, legacyVars,
                   histVars, prodVars, ccall, climit, ca, cslices, cinit, cbuf,
                   cres, ub, panicked>>

\* Mutant: a dropped PopIter commits its initial length, taken or not.
AdvanceReadCount_initial_len ==
    CASE ccall = "try_pop" -> 1
      [] ccall = "pop_iter" -> cinit
      [] OTHER -> Len(cbuf)

\* The count the current call passes to advance_read.
AdvanceReadCount ==
    CASE ccall = "try_pop" -> 1
      [] ccall = "pop_iter" -> cinit - PopIter_len
      [] OTHER -> Len(cbuf)

\* What a consumer call returns after advance_read_index(count).
\* Read::read reports WouldBlock when it got nothing for a non-empty buffer.
ConsumerResult ==
    CASE ccall = "try_pop" -> Some(cbuf[1])
      [] ccall = "skip" -> Count(ccount)
      [] ccall = "read" /\ cbuf = <<>> /\ climit > 0 -> IoError
      [] OTHER -> Count(Len(cbuf))

\* advance_read_index: the load of `read`.
advance_read_load ==
    /\ Running /\ cpc = "advance_read_load"
    /\ ca' = read
    /\ cpc' = "advance_read_store"
    /\ UNCHANGED <<cacheVars, rb, capacity, lifeVars, ccount, sharedVars, legacyVars, histVars, prodVars,
                   ccall, climit, cslices, cinit, cbuf, cres, ub, panicked>>

\* advance_read_index: the release store of `read`; the call returns.  skip
\* checks assert_eq!(number skipped, count) and returns count.
advance_read_store ==
    /\ Running /\ cpc = "advance_read_store"
    /\ read' = SharedRb_advance_read_index(ca, AdvanceReadCount)
    /\ popped' = popped \o Items(cbuf)
    /\ cres' = ConsumerResult
    /\ panicked' = (panicked \/ (ccall = "skip" /\ Len(cbuf) # ccount))
    /\ cpc' = "done"
    /\ cslices' = <<<<>>, <<>>>>
    /\ cinit' = 0
    /\ climit' = 0
    /\ ccount' = 0
    /\ ca' = 0
    /\ UNCHANGED <<cacheVars, rb, capacity, lifeVars, write, storage, legacyVars, pushed,
                   prodVars, ccall, cbuf, ub>>

\* The call has returned its result (and the items it took) to the caller;
\* the consumer is idle again.
consumer_return ==
    /\ Running /\ cpc = "done" /\ ccall # "transfer"
    /\ cpc' = "idle"
    /\ ccall' = "none"
    /\ cbuf' = <<>>
    /\ cres' = NoResult
    /\ UNCHANGED <<cacheVars, rb, capacity, lifeVars, ccount, sharedVars, legacyVars, histVars, prodVars,
                   climit, ca, cslices, cinit, ub, panicked>>

\* Consumer::pop_iter of consumer/global.rs: PopIterator { consumer: self }.
\* The iterator borrows the consumer until it is dropped.  `start` and
\* `limit` record how many items had been popped and pushed when it was made.
Consumer_pop_iter ==
    /\ Running /\ rb = "SharedRb" /\ cpc = "idle"
    /\ "consumer" \in owners /\ ~giter.live
    /\ giter' = [live |-> TRUE, start |-> Len(popped), limit |-> Len(pushed)]
    /\ UNCHANGED <<cacheVars, rb, capacity, sharedVars, legacyVars, histVars, prodVars,
                   consVars, ccount, ub, panicked, dropped, owners, destroyed>>

\* PopIterator::next: self.consumer.pop(), a whole pop of one item.
PopIterator_next ==
    /\ Running /\ rb = "SharedRb" /\ cpc = "idle"
    /\ giter.live
    /\ ccall' = "try_pop"
    /\ cbuf' = <<>>
    /\ cpc' = "is_empty_read"
    /\ UNCHANGED <<cacheVars, rb, capacity, lifeVars, ccount, sharedVars, legacyVars, histVars,
                   prodVars, climit, ca, cslices, cinit, cres, ub, panicked>>

\* The PopIterator goes out of scope; the consumer is free again.
PopIterator_drop ==
    /\ Running /\ rb = "SharedRb" /\ cpc = "idle"
    /\ giter.live
    /\ giter' = NoIter
    /\ UNCHANGED <<cacheVars, rb, capacity, sharedVars, legacyVars, histVars, prodVars,
                   consVars, ccount, ub, panicked, dropped, owners, destroyed>>

ConsumerStep ==
    \/ try_pop \/ is_empty_load_read \/ is_empty_load_write
    \/ pop_slice \/ pop_iter
    \/ occupied_load_read \/ occupied_load_write
    \/ try_pop_read \/ pop_slice_copy \/ pop_slice_done
    \/ PopIter_next \/ PopIter_drop
    \/ advance_read_load \/ advance_read_store
    \/ consumer_return
    \/ Consumer_pop_iter \/ PopIterator_next \/ PopIterator_drop
    \/ skip \/ skip_len_load_write \/ skip_len_load_read \/ clear
    \/ RawRb_skip_drop_in_place \/ RawRb_skip_done
    \/ Consumer_write_into \/ Read_read \/ Consumer_transfer_to
    \/ Consumer_write_into_error
    \/ as_mut_slices \/ iter_mut
    \/ as_mut_slices_write \/ IterMut_next \/ borrow_end

\* transfer(consumer, producer, count) is called with the two endpoints of
\* this buffer, through transfer_to or transfer_from.  Both endpoints are
\* borrowed until the call returns and no other call runs meanwhile.  The
\* items go from the head of the occupied slices to the head of the vacant
\* slices, as many as both hold and count allows: the consumer takes them
\* and advances `read`, then the producer writes them and advances `write`.
transfer ==
    /\ Running /\ rb = "SharedRb" /\ cpc = "idle" /\ ppc = "idle"
    /\ {"producer", "consumer"} \subseteq owners /\ ~giter.live
    /\ \E count \in 0..MaxBatch :
          /\ climit' = Min(count, SharedRb_vacant_len(read, write))
          /\ Len(pushed) + Min(climit', SharedRb_occupied_len(write, read))
                <= MaxPushed
    /\ ccall' = "transfer"
    /\ cbuf' = <<>>
    /\ cpc' = "occupied_read"
    /\ pcall' = "transfer"
    /\ ppc' = "transfer_wait"
    /\ UNCHANGED <<cacheVars, rb, capacity, lifeVars, ccount, sharedVars, legacyVars, histVars,
                   psrc, pa, pslices, pslot, pcount, pres, ca, cslices, cinit, cres, ub, panicked>>

\* transfer: the source is advanced; the items taken go on to the producer.
transfer_fill ==
    /\ Running /\ cpc = "done" /\ ccall = "transfer" /\ ppc = "transfer_wait"
    /\ psrc' = cbuf
    /\ pcount' = 0
    /\ ppc' = "vacant_write"
    /\ cbuf' = <<>>
    /\ cres' = NoResult
    /\ cpc' = "transfer_wait"
    /\ UNCHANGED <<cacheVars, rb, capacity, lifeVars, ccount, sharedVars, legacyVars, histVars,
                   pcall, pa, pslices, pslot, pres, ccall, climit, ca, cslices, cinit, ub, panicked>>

\* transfer: the destination is advanced; the call returns the count and
\* both endpoints are free again.
transfer_return ==
    /\ Running /\ ppc = "done" /\ pcall = "transfer" /\ cpc = "transfer_wait"
    /\ ppc' = "idle"
    /\ pcall' = "none"
    /\ psrc' = <<>>
    /\ pres' = NoResult
    /\ cpc' = "idle"
    /\ ccall' = "none"
    /\ UNCHANGED <<cacheVars, rb, capacity, lifeVars, ccount, sharedVars, legacyVars, histVars,
                   pa, pslices, pslot, pcount, climit, ca, cslices, cinit, cbuf, cres, ub, panicked>>

\* The steps that begin a transfer between the two endpoints of this buffer,
\* hand it from the consumer to the producer and end it.
TransferStep == transfer \/ transfer_fill \/ transfer_return

\* Producer::len() is called: occupied_len loads `write`, then `read`.
Producer_len ==
    /\ Running /\ rb = "SharedRb" /\ ppc = "idle"
    /\ "producer" \in owners
    /\ pcall' = "len"
    /\ ppc' = "len_write"
    /\ UNCHANGED <<cacheVars, rb, capacity, lifeVars, ccount, sharedVars, legacyVars, histVars, consVars,
                   psrc, pa, pslices, pslot, pcount, pres, ub, panicked>>

Producer_len_load_write ==
    /\ Running /\ ppc = "len_write"
    /\ pa' = write
    /\ ppc' = "len_read"
    /\ UNCHANGED <<cacheVars, rb, capacity, lifeVars, ccount, sharedVars, legacyVars, histVars, consVars,
                   pcall, psrc, pslices, pslot, pcount, pres, ub, panicked>>

Producer_len_load_read ==
    /\ Running /\ ppc = "len_read"
    /\ pres' = Length(SharedRb_occupied_len(pa, read))
    /\ pa' = 0
    /\ ppc' = "done"
    /\ UNCHANGED <<cacheVars, rb, capacity, lifeVars, ccount, sharedVars, legacyVars, histVars, consVars,
                   pcall, psrc, pslices, pslot, pcount, ub, panicked>>

\* Consumer::len() is called: occupied_len loads `write`, then `read`.
Consumer_len ==
    /\ Running /\ rb = "SharedRb" /\ cpc = "idle"
    /\ "consumer" \in owners /\ ~giter.live
    /\ ccall' = "len"
    /\ cpc' = "len_write"
    /\ UNCHANGED <<cacheVars, rb, capacity, lifeVars, ccount, sharedVars, legacyVars, histVars, prodVars,
                   climit, ca, cslices, cinit, cbuf, cres, ub, panicked>>

Consumer_len_load_write ==
    /\ Running /\ cpc = "len_write"
    /\ ca' = write
    /\ cpc' = "len_read"
    /\ UNCHANGED <<cacheVars, rb, capacity, lifeVars, ccount, sharedVars, legacyVars, histVars, prodVars,
                   ccall, climit, cslices, cinit, cbuf, cres, ub, panicked>>

Consumer_len_load_read ==
    /\ Running /\ cpc = "len_read"
    /\ cres' = Length(SharedRb_occupied_len(ca, read))
    /\ ca' = 0
    /\ cpc' = "done"
    /\ UNCHANGED <<cacheVars, rb, capacity, lifeVars, ccount, sharedVars, legacyVars, histVars, prodVars,
                   ccall, climit, cslices, cinit, cbuf, ub, panicked>>

\* Producer::remaining() is called: vacant_len loads `read`, then `write`.
Producer_remaining ==
    /\ Running /\ rb = "SharedRb" /\ ppc = "idle"
    /\ "producer" \in owners
    /\ pcall' = "remaining"
    /\ ppc' = "remaining_read"
    /\ UNCHANGED <<cacheVars, rb, capacity, lifeVars, ccount, sharedVars,
                   legacyVars, histVars, consVars, psrc, pa, pslices, pslot,
                   pcount, pres, ub, panicked>>

Producer_remaining_load_read ==
    /\ Running /\ ppc = "remaining_read"
    /\ pa' = read
    /\ ppc' = "remaining_write"
    /\ UNCHANGED <<cacheVars, rb, capacity, lifeVars, ccount, sharedVars,
                   legacyVars, histVars, consVars, pcall, psrc, pslices,
                   pslot, pcount, pres, ub, panicked>>

Producer_remaining_load_write ==
    /\ Running /\ ppc = "remaining_write"
    /\ pres' = Length(SharedRb_vacant_len(pa, write))
    /\ pa' = 0
    /\ ppc' = "done"
    /\ UNCHANGED <<cacheVars, rb, capacity, lifeVars, ccount, sharedVars,
                   legacyVars, histVars, consVars, pcall, psrc, pslices,
                   pslot, pcount, ub, panicked>>

ObserverStep ==
    \/ Producer_len \/ Producer_len_load_write \/ Producer_len_load_read
    \/ Producer_remaining
    \/ Producer_remaining_load_read \/ Producer_remaining_load_write
    \/ Consumer_len \/ Consumer_len_load_write \/ Consumer_len_load_read

\* ========================================== RingBuffer (head / tail) calls
\* The endpoints of RingBuffer::split work through the RingBufferTail and
\* RingBufferHead methods: they fill a prefix of vacant_slices() and call
\* move_tail(count), or take a prefix of occupied_slices() and call
\* move_head(count).  Each call is one step.

\* Writes n new items into the first slots of vacant_slices(), as far as the
\* slices reach, then move_tail(number written).
RingBuffer_fill(n) ==
    LET sl == Chain(RingBuffer_vacant_slices)
        k == Min(n, Len(sl))
        items == Fresh(Len(pushed), k)
    IN  /\ data' = [i \in DOMAIN data |->
                      IF \E j \in 1..k : sl[j] = i
                      THEN items[CHOOSE j \in 1..k : sl[j] = i]
                      ELSE data[i]]
        /\ RingBuffer_move_tail(k)
        /\ pushed' = IF ~RingBuffer_remainder_panics
                          /\ k <= RingBuffer_vacant_len
                     THEN pushed \o items
                     ELSE pushed

\* Takes the first n items of occupied_slices(), as far as the slices reach,
\* then move_head(number taken).
RingBuffer_drain(n) ==
    LET sl == Chain(RingBuffer_occupied_slices)
        k == Min(n, Len(sl))
        items == [j \in 1..k |-> data[sl[j]]]
    IN  /\ data' = [i \in DOMAIN data |->
                      IF \E j \in 1..k : sl[j] = i THEN Uninit ELSE data[i]]
        /\ RingBuffer_move_head(k)
        /\ popped' = IF ~RingBuffer_remainder_panics
                          /\ k <= RingBuffer_occupied_len
                     THEN popped \o items
                     ELSE popped

\* push(elem): a full buffer hands the item back; otherwise the item is
\* written into the first slot of the first vacant slice, reached without a
\* bounds check, and move_tail(1) follows.  When the first slice is empty the
\* unchecked access is undefined: it writes the slot the slice starts at
\* (offset 0), or the build's precondition check ends the run.
ArcProducer_push ==
    /\ Running /\ rb = "RingBuffer" /\ "producer" \in owners
    /\ Len(pushed) < MaxPushed
    /\ IF RingBuffer_remainder_panics
       THEN /\ panicked' = TRUE
            /\ UNCHANGED <<legacyVars, pushed, pres, ub>>
       ELSE IF RingBufferBase_is_full
       THEN /\ pres' = Err(Len(pushed) + 1)
            /\ UNCHANGED <<legacyVars, pushed, panicked, ub>>
       ELSE IF RingBuffer_vacant_slices[1] # <<>>
       THEN /\ RingBuffer_fill(1)
            /\ pres' = Ok
            /\ UNCHANGED <<head, ub>>
       ELSE /\ ub' = TRUE
            /\ \/ /\ data' = [data EXCEPT ![0] = Len(pushed) + 1]
                  /\ RingBuffer_move_tail(1)
                  /\ pushed' = Append(pushed, Len(pushed) + 1)
                  /\ pres' = Ok
                  /\ head' = head
               \/ /\ panicked' = TRUE
                  /\ UNCHANGED <<legacyVars, pushed, pres>>
    /\ UNCHANGED <<cacheVars, rb, capacity, lifeVars, ccount, sharedVars, popped, consVars,
                   ppc, pcall, psrc, pa, pslices, pslot, pcount>>

\* push_slice(elems) with a slice of n items.
ArcProducer_push_slice ==
    /\ Running /\ rb = "RingBuffer" /\ "producer" \in owners
    /\ \E n \in 1..MaxBatch :
          /\ Len(pushed) + n <= MaxPushed
          /\ RingBuffer_fill(n)
          /\ pres' = Count(Min(n, Len(Chain(RingBuffer_vacant_slices))))
    /\ head' = head
    /\ UNCHANGED <<cacheVars, rb, capacity, lifeVars, ccount, sharedVars, popped, consVars,
                   ppc, pcall, psrc, pa, pslices, pslot, pcount, ub>>

\* pop(): an empty buffer yields None; otherwise the item of the first slot
\* of the first occupied slice, reached without a bounds check, is moved out
\* and move_head(1) follows.  When the first slice is empty the unchecked
\* access is undefined: it reads the slot the slice starts at (offset 0), or
\* the build's precondition check ends the run.
ArcConsumer_pop ==
    /\ Running /\ rb = "RingBuffer" /\ "consumer" \in owners
    /\ IF RingBuffer_remainder_panics
       THEN /\ panicked' = TRUE
            /\ UNCHANGED <<legacyVars, popped, cres, ub>>
       ELSE IF RingBufferBase_is_empty
       THEN /\ cres' = None
            /\ UNCHANGED <<legacyVars, popped, panicked, ub>>
       ELSE IF RingBuffer_occupied_slices[1] # <<>>
       THEN /\ RingBuffer_drain(1)
            /\ cres' = Some(data[RingBuffer_occupied_slices[1][1]])
            /\ UNCHANGED <<tail, ub>>
       ELSE /\ ub' = TRUE
            /\ \/ /\ \E v \in (IF data[0] # Uninit THEN {data[0]} ELSE Garbage) :
                        /\ cres' = Some(v)
                        /\ popped' = Append(popped, v)
                  /\ data' = [data EXCEPT ![0] = Uninit]
                  /\ RingBuffer_move_head(1)
                  /\ tail' = tail
               \/ /\ panicked' = TRUE
                  /\ UNCHANGED <<legacyVars, popped, cres>>
    /\ UNCHANGED <<cacheVars, rb, capacity, lifeVars, ccount, sharedVars, pushed, prodVars,
                   cpc, ccall, climit, ca, cslices, cinit, cbuf>>

\* pop_slice(elems) with a destination of n places.
ArcConsumer_pop_slice ==
    /\ Running /\ rb = "RingBuffer" /\ "consumer" \in owners
    /\ \E n \in 1..MaxBatch :
          /\ RingBuffer_drain(n)
          /\ cres' = Count(Min(n, Len(Chain(RingBuffer_occupied_slices))))
    /\ tail' = tail
    /\ UNCHANGED <<cacheVars, rb, capacity, lifeVars, ccount, sharedVars, pushed, prodVars,
                   cpc, ccall, climit, ca, cslices, cinit, cbuf, ub>>

RingBufferStep ==
    \/ ArcProducer_push \/ ArcProducer_push_slice
    \/ ArcConsumer_pop \/ ArcConsumer_pop_slice

\* ============================================================== lifecycle
\* split() puts the buffer behind an Arc and gives each endpoint one clone of
\* it.  Dropping an endpoint drops its Arc; the buffer's Drop runs when that
\* was the last one.

\* Mutant: every drop of an Arc releases the buffer.
Arc_drop_releases_always(rest) == TRUE

\* Dropping an Arc releases the value when no other clone is left.
Arc_drop_releases(rest) == rest = {}

\* Drop for SharedRb: self.clear().  The steps of clear follow.
SharedRb_drop ==
    /\ ccall' = "drop"
    /\ cbuf' = <<>>
    /\ cpc' = "occupied_read"
    /\ UNCHANGED <<legacyVars, dropped, popped>>

\* Drop for RingBuffer: drop_in_place of every slot of occupied_slices().
RingBuffer_drop ==
    LET sl == Chain(RingBuffer_occupied_slices)
        items == [j \in 1..Len(sl) |-> data[sl[j]]]
    IN  /\ data' = [i \in DOMAIN data |->
                      IF \E j \in 1..Len(sl) : sl[j] = i
                      THEN Uninit ELSE data[i]]
        /\ dropped' = dropped \o items
        /\ popped' = popped \o items
        /\ UNCHANGED <<head, tail, ccall, cbuf, cpc>>

\* The endpoint e drops its Arc of the buffer.
Arc_drop(e) ==
    /\ owners' = owners \ {e}
    /\ IF Arc_drop_releases(owners')
       THEN /\ destroyed' = destroyed + 1
            /\ IF rb = "SharedRb" THEN SharedRb_drop ELSE RingBuffer_drop
       ELSE UNCHANGED <<destroyed, legacyVars, dropped, popped, ccall, cbuf,
                        cpc>>
    /\ UNCHANGED <<cacheVars, rb, capacity, sharedVars, pushed, prodVars, climit, ca,
                   cslices, cinit, cres, ccount, giter, ub, panicked>>

\* The producer endpoint is dropped (it has no call in progress).
Producer_drop ==
    /\ Running /\ "producer" \in owners
    /\ ppc = "idle"
    /\ Arc_drop("producer")

\* The consumer endpoint is dropped (it has no call in progress and no
\* iterator borrows it).
Consumer_drop ==
    /\ Running /\ "consumer" \in owners
    /\ cpc = "idle" /\ ~giter.live
    /\ Arc_drop("consumer")

LifecycleStep == Producer_drop \/ Consumer_drop

\* ============================================================ specification
Next ==
    \/ ProducerStep \/ ConsumerStep \/ TransferStep \/ ObserverStep
    \/ RingBufferStep \/ LifecycleStep

Spec == Init /\ [][Next]_vars

\* ========================================================= cached endpoints
\* The cached endpoint pair over a SharedRb.  Each endpoint keeps a local
\* copy of its own index and a snapshot of the counterpart's index.  In
\* immediate mode a call publishes the local advance before it returns; in
\* postponed (frozen) mode the advance stays local until sync, conversion
\* to immediate mode, or drop.

\* The buffer is built and split into a cached producer and a cached
\* consumer; each starts in immediate mode with both indices fetched.
CachedInit ==
    /\ \E c \in 1..MaxCap : \E first \in 0..(2 * c - 1) : \E n \in 0..c :
          SharedRb_from_raw_parts(c, first, n)
    /\ EndpointsIdle
    /\ pmode = "immediate" /\ cmode = "immediate"
    /\ pwrite = write /\ pread = read
    /\ cread = read /\ cwrite = write

\* Mutant: an endpoint publishes at the end of every call in either mode.
Mode_publishes_always(mode) == TRUE

\* Whether an endpoint in this mode publishes its advance at the end of
\* each mutating call.
Mode_publishes(mode) == mode = "immediate"

\* The producer's commit: the release store of its local write index.
CachedProd_commit ==
    /\ write' = pwrite
    /\ pushed' = pushed \o pheld
    /\ pheld' = <<>>
    /\ psynced' = IF pmode = "postponed" THEN psynced + Len(pheld)
                                         ELSE psynced

\* Mutant: the consumer publishes a read index one past its local one.
CachedCons_commit_ahead ==
    /\ read' = SharedRb_advance_read_index(cread, 1)
    /\ popped' = popped \o cheld
    /\ cheld' = <<>>

\* The consumer's commit: the release store of its local read index.
CachedCons_commit ==
    /\ read' = cread
    /\ popped' = popped \o cheld
    /\ cheld' = <<>>

\* try_push on a cached producer: is_full() on the local view; an apparent
\* full buffer makes the producer fetch the real read index and retry.
CachedProd_try_push ==
    /\ Running /\ ppc = "idle" /\ "producer" \in owners
    /\ Len(pushed) + Len(pheld) < MaxPushed
    /\ pcall' = "try_push"
    /\ psrc' = Fresh(Len(pushed) + Len(pheld), 1)
    /\ ppc' = IF SharedRb_is_full(pwrite, pread) THEN "fetch"
                                                 ELSE "cached_fill"
    /\ UNCHANGED <<rb, capacity, lifeVars, ccount, sharedVars, legacyVars,
                   histVars, consVars, pa, pslices, pslot, pcount, pres, ub,
                   panicked, cacheVars>>

\* The acquire load of `read` into the snapshot, and the retry: a buffer
\* that is still full hands the item back.
CachedProd_fetch ==
    /\ Running /\ ppc = "fetch"
    /\ pread' = read
    /\ IF SharedRb_is_full(pwrite, read)
       THEN /\ pres' = Err(psrc[1])
            /\ ppc' = "done"
       ELSE /\ ppc' = "cached_fill"
            /\ pres' = pres
    /\ UNCHANGED <<rb, capacity, lifeVars, ccount, sharedVars, legacyVars,
                   histVars, consVars, pcall, psrc, pa, pslices, pslot,
                   pcount, ub, panicked, pmode, cmode, pwrite, cread, cwrite,
                   pheld, cheld, psynced>>

\* The producer starts writing the item into the first vacant slot of its
\* local view.
CachedProd_fill_begin ==
    /\ Running /\ ppc = "cached_fill"
    /\ pslot' = try_push_slot(SharedRb_vacant_slices(pwrite, pread))
    /\ storage' = [storage EXCEPT ![pslot'] = Partial]
    /\ ppc' = "cached_fill_end"
    /\ UNCHANGED <<rb, capacity, lifeVars, ccount, read, write, legacyVars,
                   histVars, consVars, pcall, psrc, pa, pslices, pcount,
                   pres, ub, panicked, cacheVars>>

\* The write completes and the local write index advances by one.  In
\* postponed mode the call returns here.
CachedProd_fill_end ==
    /\ Running /\ ppc = "cached_fill_end"
    /\ storage' = [storage EXCEPT ![pslot] = psrc[1]]
    /\ pwrite' = SharedRb_advance_write_index(pwrite, 1)
    /\ pheld' = Append(pheld, psrc[1])
    /\ pslot' = 0
    /\ IF Mode_publishes(pmode)
       THEN /\ ppc' = "commit"
            /\ pres' = pres
       ELSE /\ ppc' = "done"
            /\ pres' = Ok
    /\ UNCHANGED <<rb, capacity, lifeVars, ccount, read, write, legacyVars,
                   histVars, consVars, pcall, psrc, pa, pslices, pcount, ub,
                   panicked, pmode, cmode, pread, cread, cwrite, cheld,
                   psynced>>

\* Immediate mode: the call publishes its advance and returns.
CachedProd_try_push_commit ==
    /\ Running /\ ppc = "commit"
    /\ CachedProd_commit
    /\ pres' = Ok
    /\ ppc' = "done"
    /\ UNCHANGED <<rb, capacity, lifeVars, ccount, read, storage, legacyVars,
                   popped, consVars, pcall, psrc, pa, pslices, pslot, pcount,
                   ub, panicked, pmode, cmode, pwrite, pread, cread, cwrite,
                   cheld>>

\* sync on the producer: commit, then fetch.
CachedProd_sync ==
    /\ Running /\ ppc = "idle" /\ "producer" \in owners
    /\ CachedProd_commit
    /\ pcall' = "sync"
    /\ ppc' = "sync_fetch"
    /\ UNCHANGED <<rb, capacity, lifeVars, ccount, read, storage, legacyVars,
                   popped, consVars, psrc, pa, pslices, pslot, pcount, pres,
                   ub, panicked, pmode, cmode, pwrite, pread, cread, cwrite,
                   cheld>>

\* sync on the producer: the fetch of `read`.
CachedProd_sync_fetch ==
    /\ Running /\ ppc = "sync_fetch"
    /\ pread' = read
    /\ ppc' = "done"
    /\ UNCHANGED <<rb, capacity, lifeVars, ccount, sharedVars, legacyVars,
                   histVars, consVars, pcall, psrc, pa, pslices, pslot,
                   pcount, pres, ub, panicked, pmode, cmode, pwrite, cread,
                   cwrite, pheld, cheld, psynced>>

\* The producer is turned into a postponed one.
CachedProd_into_postponed ==
    /\ Running /\ ppc = "idle" /\ "producer" \in owners
    /\ pmode = "immediate"
    /\ pmode' = "postponed"
    /\ UNCHANGED <<rb, capacity, lifeVars, ccount, sharedVars, legacyVars,
                   histVars, consVars, prodVars, ub, panicked, cmode, pwrite,
                   pread, cread, cwrite, pheld, cheld, psynced>>

\* The producer is turned back into an immediate one: it commits.
CachedProd_into_immediate ==
    /\ Running /\ ppc = "idle" /\ "producer" \in owners
    /\ pmode = "postponed"
    /\ CachedProd_commit
    /\ pmode' = "immediate"
    /\ UNCHANGED <<rb, capacity, lifeVars, ccount, read, storage, legacyVars,
                   popped, consVars, prodVars, ub, panicked, cmode, pwrite,
                   pread, cread, cwrite, cheld>>

\* Drop of the producer: it commits, then releases its Arc.
CachedProd_drop ==
    /\ Running /\ ppc = "idle" /\ "producer" \in owners
    /\ CachedProd_commit
    /\ pcall' = "drop"
    /\ ppc' = "release"
    /\ UNCHANGED <<rb, capacity, lifeVars, ccount, read, storage, legacyVars,
                   popped, consVars, psrc, pa, pslices, pslot, pcount, pres,
                   ub, panicked, pmode, cmode, pwrite, pread, cread, cwrite,
                   cheld>>

\* Drop of the producer: the release of its Arc.
CachedProd_release ==
    /\ Running /\ ppc = "release" /\ "producer" \in owners
    /\ Arc_drop("producer")

CachedProducerStep ==
    \/ CachedProd_try_push \/ CachedProd_fetch
    \/ CachedProd_fill_begin \/ CachedProd_fill_end
    \/ CachedProd_try_push_commit
    \/ CachedProd_sync \/ CachedProd_sync_fetch
    \/ CachedProd_into_postponed \/ CachedProd_into_immediate
    \/ CachedProd_drop \/ CachedProd_release
    \/ producer_return

\* try_pop on a cached consumer: is_empty() on the local view; an apparent
\* empty buffer makes the consumer fetch the real write index and retry.
CachedCons_try_pop ==
    /\ Running /\ cpc = "idle" /\ "consumer" \in owners
    /\ ccall' = "try_pop"
    /\ cbuf' = <<>>
    /\ cpc' = IF SharedRb_is_empty(cread, cwrite) THEN "fetch"
                                                  ELSE "cached_take"
    /\ UNCHANGED <<rb, capacity, lifeVars, ccount, sharedVars, legacyVars,
                   histVars, prodVars, climit, ca, cslices, cinit, cres, ub,
                   panicked, cacheVars>>

\* The acquire load of `write` into the snapshot, and the retry: a buffer
\* that is still empty yields None.
CachedCons_fetch ==
    /\ Running /\ cpc = "fetch"
    /\ cwrite' = write
    /\ IF SharedRb_is_empty(cread, write)
       THEN /\ cres' = None
            /\ cpc' = "done"
       ELSE /\ cpc' = "cached_take"
            /\ cres' = cres
    /\ UNCHANGED <<rb, capacity, lifeVars, ccount, sharedVars, legacyVars,
                   histVars, prodVars, ccall, climit, ca, cslices, cinit,
                   cbuf, ub, panicked, pmode, cmode, pwrite, pread, cread,
                   pheld, cheld, psynced>>

\* The consumer moves the item out of the first occupied slot of its local
\* view and advances its local read index by one.  In postponed mode the
\* call returns here.
CachedCons_take ==
    /\ Running /\ cpc = "cached_take"
    /\ LET k == try_pop_slot(SharedRb_occupied_slices(cread, cwrite)) IN
          /\ \E v \in SlotValues(k) :
                /\ cbuf' = <<v>>
                /\ cheld' = Append(cheld, v)
                /\ IF Mode_publishes(cmode)
                   THEN /\ cpc' = "commit"
                        /\ cres' = cres
                   ELSE /\ cpc' = "done"
                        /\ cres' = Some(v)
          /\ ub' = (ub \/ ~SlotReadable(k))
          /\ storage' = MovedOut(k)
    /\ cread' = SharedRb_advance_read_index(cread, 1)
    /\ UNCHANGED <<rb, capacity, lifeVars, ccount, read, write, legacyVars,
                   histVars, prodVars, ccall, climit, ca, cslices, cinit,
                   panicked, pmode, cmode, pwrite, pread, cwrite, pheld,
                   psynced>>

\* Immediate mode: the call commits its advance and returns the item.
CachedCons_try_pop_commit ==
    /\ Running /\ cpc = "commit"
    /\ CachedCons_commit
    /\ cres' = Some(cbuf[1])
    /\ cpc' = "done"
    /\ UNCHANGED <<rb, capacity, lifeVars, ccount, write, storage, legacyVars,
                   pushed, prodVars, ccall, climit, ca, cslices, cinit, cbuf,
                   ub, panicked, pmode, cmode, pwrite, pread, cread, cwrite,
                   pheld, psynced>>

\* occupied_len on the consumer: it fetches `write` and measures its view.
CachedCons_occupied_len ==
    /\ Running /\ cpc = "idle" /\ "consumer" \in owners
    /\ cwrite' = write
    /\ ccall' = "occupied_len"
    /\ cres' = Length(SharedRb_occupied_len(cwrite', cread))
    /\ cpc' = "done"
    /\ UNCHANGED <<rb, capacity, lifeVars, ccount, sharedVars, legacyVars,
                   histVars, prodVars, climit, ca, cslices, cinit, cbuf, ub,
                   panicked, pmode, cmode, pwrite, pread, cread, pheld,
                   cheld, psynced>>

\* sync on the consumer: commit, then fetch.
CachedCons_sync ==
    /\ Running /\ cpc = "idle" /\ "consumer" \in owners
    /\ CachedCons_commit
    /\ ccall' = "sync"
    /\ cpc' = "sync_fetch"
    /\ UNCHANGED <<rb, capacity, lifeVars, ccount, write, storage, legacyVars,
                   pushed, prodVars, climit, ca, cslices, cinit, cbuf, cres,
                   ub, panicked, pmode, cmode, pwrite, pread, cread, cwrite,
                   pheld, psynced>>

\* sync on the consumer: the fetch of `write`.
CachedCons_sync_fetch ==
    /\ Running /\ cpc = "sync_fetch"
    /\ cwrite' = write
    /\ cpc' = "done"
    /\ UNCHANGED <<rb, capacity, lifeVars, ccount, sharedVars, legacyVars,
                   histVars, prodVars, ccall, climit, ca, cslices, cinit,
                   cbuf, cres, ub, panicked, pmode, cmode, pwrite, pread,
                   cread, pheld, cheld, psynced>>

\* The consumer is turned into a postponed one.
CachedCons_into_postponed ==
    /\ Running /\ cpc = "idle" /\ "consumer" \in owners
    /\ cmode = "immediate"
    /\ cmode' = "postponed"
    /\ UNCHANGED <<rb, capacity, lifeVars, ccount, sharedVars, legacyVars,
                   histVars, prodVars, consVars, ub, panicked, pmode, pwrite,
                   pread, cread, cwrite, pheld, cheld, psynced>>

\* The consumer is turned back into an immediate one: it commits.
CachedCons_into_immediate ==
    /\ Running /\ cpc = "idle" /\ "consumer" \in owners
    /\ cmode = "postponed"
    /\ CachedCons_commit
    /\ cmode' = "immediate"
    /\ UNCHANGED <<rb, capacity, lifeVars, ccount, write, storage, legacyVars,
                   pushed, prodVars, consVars, ub, panicked, pmode, pwrite,
                   pread, cread, cwrite, pheld, psynced>>

\* Drop of the consumer: it commits, then releases its Arc.
CachedCons_drop ==
    /\ Running /\ cpc = "idle" /\ "consumer" \in owners
    /\ CachedCons_commit
    /\ ccall' = "drop"
    /\ cpc' = "release"
    /\ UNCHANGED <<rb, capacity, lifeVars, ccount, write, storage, legacyVars,
                   pushed, prodVars, climit, ca, cslices, cinit, cbuf, cres,
                   ub, panicked, pmode, cmode, pwrite, pread, cread, cwrite,
                   pheld, psynced>>

\* Drop of the consumer: the release of its Arc.
CachedCons_release ==
    /\ Running /\ cpc = "release" /\ "consumer" \in owners
    /\ Arc_drop("consumer")

CachedConsumerStep ==
    \/ CachedCons_try_pop \/ CachedCons_fetch
    \/ CachedCons_take \/ CachedCons_try_pop_commit
    \/ CachedCons_occupied_len
    \/ CachedCons_sync \/ CachedCons_sync_fetch
    \/ CachedCons_into_postponed \/ CachedCons_into_immediate
    \/ CachedCons_drop \/ CachedCons_release
    \/ consumer_return

\* The steps of the buffer's own Drop (clear), once both endpoints are gone.
BufferDropStep ==
    \/ occupied_load_read \/ occupied_load_write
    \/ RawRb_skip_drop_in_place \/ RawRb_skip_done
    \/ advance_read_load \/ advance_read_store

CachedNext ==
    \/ CachedProducerStep \/ CachedConsumerStep \/ BufferDropStep

CachedSpec == CachedInit /\ [][CachedNext]_vars

\* ============================================== both families of endpoints
\* A buffer with either pair of endpoints: the direct ones or the cached ones.
EndpointsInit == Init \/ CachedInit

EndpointsNext ==
    \/ pmode = "direct" /\ Next
    \/ pmode # "direct" /\ CachedNext

EndpointsSpec == EndpointsInit /\ [][EndpointsNext]_vars

\* ============================================================ construction
\* The program from before the buffer exists: new(capacity) with any
\* capacity, zero included, then split, then the calls on the endpoints.

\* Building the storage of an OwningRingBuffer panics for capacity zero.
Storage_new_panics(c) == c = 0

\* Storage::new of ring_buffer.rs takes the length of the container as it
\* is: no capacity is refused.
RingBuffer_Storage_new_panics(c) == FALSE

\* Whether building the storage of a buffer of type `kind` panics.
new_panics(kind, c) ==
    IF kind = "SharedRb" THEN Storage_new_panics(c)
    ELSE RingBuffer_Storage_new_panics(c)

\* No buffer has been constructed.
NoBuffer ==
    /\ rb = "none"
    /\ capacity = 0
    /\ read = 0 /\ write = 0 /\ storage = EmptyStorage(0)
    /\ head = 0 /\ tail = 0 /\ data = EmptyStorage(0)
    /\ pushed = <<>>

ConstructInit ==
    /\ NoBuffer
    /\ EndpointsIdle
    /\ pmode = "direct" /\ cmode = "direct"
    /\ pwrite = 0 /\ pread = 0 /\ cread = 0 /\ cwrite = 0

\* new(capacity) of buffer type `kind`, followed by split into endpoints of
\* mode `mode`: the container gets `capacity` uninitialized slots and
\* from_raw_parts(data, 0, 0) builds the buffer.
new(kind, c, mode) ==
    /\ Running /\ rb = "none"
    /\ IF new_panics(kind, c)
       THEN /\ panicked' = TRUE
            /\ UNCHANGED <<rb, capacity, sharedVars, legacyVars, pmode, cmode>>
       ELSE /\ rb' = kind
            /\ capacity' = c
            /\ read' = 0 /\ write' = 0 /\ storage' = EmptyStorage(c)
            /\ head' = 0 /\ tail' = 0 /\ data' = EmptyStorage(c)
            /\ pmode' = mode /\ cmode' = mode
            /\ panicked' = panicked
    /\ UNCHANGED <<histVars, prodVars, consVars, lifeVars, ccount, ub,
                   pwrite, pread, cread, cwrite, pheld, cheld, psynced>>

\* OwningRingBuffer::new(capacity): the buffer with atomic indices, split
\* into direct or cached endpoints.
OwningRingBuffer_new ==
    \E c \in 0..MaxCap : \E mode \in {"direct", "immediate"} :
        new("SharedRb", c, mode)

\* RingBuffer::new(capacity), split into ArcProducer and ArcConsumer.
\* Capacity zero gives a buffer over an empty container.
RingBuffer_new ==
    \E c \in 0..MaxCap : new("RingBuffer", c, "direct")

\* Default::default() of the array-backed RingBuffer<T, [MaybeUninit<T>; N]>:
\* from_raw_parts(array, 0, 0) over N slots, N = 0 included.
RingBuffer_default ==
    \E N \in 0..MaxCap : new("RingBuffer", N, "direct")

ConstructNext ==
    \/ OwningRingBuffer_new
    \/ RingBuffer_new
    \/ RingBuffer_default
    \/ rb # "none" /\ EndpointsNext

ConstructSpec == ConstructInit /\ [][ConstructNext]_vars

\* ============================================ RingBuffer: direct index moves
\* move_head and move_tail are public (unsafe) methods of RingBufferHead and
\* RingBufferTail: a caller that works on the slices itself calls them with
\* a count of its own.  The call is the assert and the store, nothing else.

\* RingBufferHead::move_head(count), called on the buffer.
RingBufferHead_move_head(count) ==
    /\ Running /\ rb = "RingBuffer" /\ "consumer" \in owners
    /\ RingBuffer_move_head(count)
    /\ UNCHANGED <<cacheVars, rb, capacity, lifeVars, ccount, sharedVars,
                   histVars, prodVars, consVars, ub, tail, data>>

\* RingBufferTail::move_tail(count), called on the buffer.
RingBufferTail_move_tail(count) ==
    /\ Running /\ rb = "RingBuffer" /\ "producer" \in owners
    /\ RingBuffer_move_tail(count)
    /\ UNCHANGED <<cacheVars, rb, capacity, lifeVars, ccount, sharedVars,
                   histVars, prodVars, consVars, ub, head, data>>

\* The counts a caller passes: everything up to one more than the capacity.
MoveCounts == 0 .. (capacity + 1)

MoveStep ==
    \/ \E count \in MoveCounts : RingBufferHead_move_head(count)
    \/ \E count \in MoveCounts : RingBufferTail_move_tail(count)

\* A RingBuffer built by from_raw_parts (new is the case of two zero indices)
\* and split.
MoveInit == Init /\ rb = "RingBuffer"

MoveNext == RingBufferStep \/ MoveStep

MoveSpec == MoveInit /\ [][MoveNext]_vars

\* ================================================================== claims
\* The number of items in the buffer according to the histories.
Stored == Len(pushed) - Len(popped)

\* The items pushed and not yet popped, oldest first.
Remaining == SubSeq(pushed, Len(popped) + 1, Len(pushed))

\* The items the consumer has taken so far: those of committed calls and
\* those its running call has already moved out.
Taken == IF cpc \in {"done", "transfer_wait"} THEN popped ELSE popped \o Items(cbuf)

\* C1 (FIFO): in every interleaving of try_push / push_iter / push_slice with
\* try_pop / pop_iter / pop_slice, the items the consumer has taken so far are
\* a prefix of the items pushed so far, and a try_pop that returns an item
\* returns the oldest item that was still in the buffer.
C1_FIFO ==
    /\ IsPrefix(popped, pushed)
    /\ IsPrefix(Taken, pushed)
    /\ (cpc = "done" /\ ccall = "try_pop" /\ cres.kind = "Some")
          => (Len(popped) >= 1 /\ Item(cres.val) = pushed[Len(popped)])

\* A try_pop has returned the third item of the run while the producer is in
\* the middle of a call of its own.
C1_Witness ==
    /\ rb = "SharedRb"
    /\ cpc = "done" /\ ccall = "try_pop" /\ cres = Some(3)
    /\ ppc \notin {"idle", "done"}

\* C2 (conservation): occupied_len, computed from the two indices modulo
\* 2 * capacity, equals the number of items pushed minus the number popped.
C2_Conservation ==
    IF rb = "SharedRb"
    THEN SharedRb_occupied_len(write, read) = Stored
    ELSE RingBuffer_occupied_len = Stored

\* C3 (capacity bound): occupied_len lies in [0, capacity] in every state,
\* and so does every value an endpoint computes from its two separate index
\* loads while the other endpoint advances.
C3_CapacityBound ==
    /\ SharedRb_occupied_len(write, read) \in 0..capacity
    /\ RingBuffer_occupied_len \in 0..capacity
    /\ (ppc = "len_read") =>
          SharedRb_occupied_len(pa, read) \in 0..capacity
    /\ (cpc = "len_read") =>
          SharedRb_occupied_len(ca, read) \in 0..capacity
    /\ (ppc = "done" /\ pcall = "len") => pres.val \in 0..capacity
    /\ (cpc = "done" /\ ccall = "len") => cres.val \in 0..capacity

\* The consumer's len() has returned a value computed from a `write` loaded
\* before the producer advanced and a `read` loaded afterwards: it differs
\* from the occupied_len of the current indices.
C3_Witness ==
    /\ rb = "SharedRb"
    /\ cpc = "done" /\ ccall = "len"
    /\ ppc = "idle"
    /\ cres.val # SharedRb_occupied_len(write, read)
    /\ write < read

\* The two indices of the buffer that was constructed.
read_end == IF rb = "SharedRb" THEN read ELSE head
write_end == IF rb = "SharedRb" THEN write ELSE tail

\* is_empty() / is_full() / occupied_len() of the buffer that was constructed.
IsEmpty ==
    IF rb = "SharedRb" THEN SharedRb_is_empty(read, write)
    ELSE RingBufferBase_is_empty
IsFull ==
    IF rb = "SharedRb" THEN SharedRb_is_full(write, read)
    ELSE RingBufferBase_is_full
OccupiedLen ==
    IF rb = "SharedRb" THEN SharedRb_occupied_len(write, read)
    ELSE RingBuffer_occupied_len

\* C4 (full / empty distinction): is_empty holds exactly when the two indices
\* are equal, which is exactly when no item is stored; is_full holds exactly
\* when capacity items are stored; the two never hold together.
C4_FullEmptyDistinction ==
    /\ IsEmpty <=> (read_end = write_end)
    /\ IsEmpty <=> (Stored = 0)
    /\ IsFull <=> (Stored = capacity)
    /\ ~(IsEmpty /\ IsFull)

\* The producer takes a step of a try_push call.
TryPushStep == rb = "SharedRb" /\ pcall = "try_push" /\ ppc' # ppc

\* C5 (try_push on a full buffer): a try_push that finds the buffer full
\* returns with the item it was given, and no step of it changes write_end,
\* read_end or a stored item; no step of any operation replaces an item that
\* is in a slot by anything else: the only changes to an occupied slot are
\* the consumer moving the item out and the consumer changing the item in
\* place through the &mut it borrowed (as_mut_slices, iter_mut), which is no
\* step of the producer and leaves the same item in the slot.
C5_TryPushFull ==
    [][ /\ (TryPushStep /\ ppc = "is_full_read" /\ Stored = capacity)
            => /\ ppc' = "done"
               /\ pres' = Err(psrc[1])
        /\ (TryPushStep /\ ppc \in {"is_full_write", "is_full_read"})
            => UNCHANGED <<read, write, storage, pushed, popped>>
        /\ (TryPushStep /\ ppc' = "done" /\ pres'.kind = "Err")
            => /\ pres'.val = psrc[1]
               /\ UNCHANGED <<read, write, storage, pushed, popped>>
        /\ rb = "SharedRb" =>
              \A k \in DOMAIN storage :
                 (storage[k] > Uninit /\ storage'[k] # storage[k])
                    => \/ /\ storage'[k] = Uninit
                          /\ cbuf' = Append(cbuf, storage[k])
                       \/ /\ cpc = "borrowed"
                          /\ UNCHANGED prodVars
                          /\ Item(storage'[k]) = Item(storage[k])
      ]_vars

\* A try_push has handed its item back: the buffer holds capacity items, the
\* indices have passed capacity, and the consumer is in the middle of a call.
C5_Witness ==
    /\ rb = "SharedRb"
    /\ ppc = "done" /\ pcall = "try_push" /\ pres = Err(Len(pushed) + 1)
    /\ Stored = capacity
    /\ write >= capacity
    /\ cpc \notin {"idle", "done"}

\* The consumer takes a step of a try_pop call.
TryPopStep == rb = "SharedRb" /\ ccall = "try_pop" /\ cpc' # cpc

\* C6 (try_pop on an empty buffer): a try_pop that finds the buffer empty
\* returns None, and no step of it changes read_end, write_end or the storage.
C6_TryPopEmpty ==
    [][ /\ (TryPopStep /\ cpc = "is_empty_write" /\ Stored = 0)
            => /\ cpc' = "done"
               /\ cres' = None
        /\ (TryPopStep /\ cpc \in {"is_empty_read", "is_empty_write"})
            => UNCHANGED <<read, write, storage, pushed, popped>>
        /\ (TryPopStep /\ cpc' = "done" /\ cres'.kind = "None")
            => UNCHANGED <<read, write, storage, pushed, popped>>
      ]_vars

\* A try_pop has returned None on a buffer that was emptied after its indices
\* passed capacity, while the producer is in the middle of a call.
C6_Witness ==
    /\ rb = "SharedRb"
    /\ cpc = "done" /\ ccall = "try_pop" /\ cres = None
    /\ Stored = 0 /\ Len(popped) > 0
    /\ read >= capacity
    /\ ppc \notin {"idle", "done"}

\* C7 (try_push succeeds exactly below capacity): with no operation of the
\* consumer in flight, a push returns Ok exactly when occupied_len() was less
\* than capacity, and occupied_len() is then larger by one.
C7_TryPushSucceeds ==
    [][ /\ (TryPushStep /\ ppc' = "done" /\ cpc = "idle")
            => /\ (pres'.kind = "Ok") <=> (OccupiedLen < capacity)
               /\ (pres'.kind = "Ok") => (OccupiedLen' = OccupiedLen + 1)
        /\ ArcProducer_push
            => /\ (pres'.kind = "Ok" /\ ~panicked')
                     <=> (OccupiedLen < capacity)
               /\ (pres'.kind = "Ok" /\ ~panicked')
                     => (OccupiedLen' = OccupiedLen + 1)
      ]_vars

\* The consumer moves an item out of a slot.
ConsumerReads == rb = "SharedRb" /\ Len(cbuf') > Len(cbuf)

\* C8 (publication): every slot the consumer reads holds a completely written
\* item, and that item was published (the producer's store of write_end that
\* covers it has happened); no endpoint ever touches a slot out of its range.
C8_Publication ==
    [][ /\ ConsumerReads =>
              \E k \in DOMAIN storage :
                 /\ storage[k] > Uninit
                 /\ \E i \in (Len(popped) + 1)..Len(pushed) :
                       pushed[i] = Item(storage[k])
                 /\ cbuf' = Append(cbuf, storage[k])
                 /\ storage' = [storage EXCEPT ![k] = Uninit]
        /\ rb = "SharedRb" => ~ub'
      ]_vars

\* The consumer has moved item 2 out of its slot while the producer is in
\* the middle of writing a later item into another slot.
C8_Witness ==
    /\ rb = "SharedRb"
    /\ ccall = "try_pop" /\ cpc = "advance_read_load" /\ cbuf = <<2>>
    /\ ppc = "fill_end"
    /\ storage[pslot] = Partial

\* The producer begins to write an item into a slot.
ProducerWrites == rb = "SharedRb" /\ ppc = "fill" /\ ppc' = "fill_end"

\* C9 (reclamation): the slot the producer writes into is uninitialized and
\* outside the occupied range of the current indices, and the item that was
\* in that slot before (the one pushed capacity items earlier) has been popped
\* by an operation whose store of read_end has happened.
C9_Reclamation ==
    [][ ProducerWrites =>
           LET k == pslot'
               item == Len(pushed) + pcount + 1
               occupied == Chain(SharedRb_occupied_slices(read, write))
           IN  /\ k \in DOMAIN storage
               /\ storage[k] = Uninit
               /\ \A i \in 1..Len(occupied) : occupied[i] # k
               /\ item > capacity => Len(popped) >= item - capacity
               /\ ~ub'
      ]_vars

\* The producer is writing into a slot whose previous item the consumer has
\* popped, while the consumer is in the middle of its next call.
C9_Witness ==
    /\ rb = "SharedRb"
    /\ ppc = "fill_end"
    /\ Len(pushed) + pcount + 1 > capacity
    /\ popped # <<>>
    /\ cpc \notin {"idle", "done"}

\* The occupied two-slice view of the buffer that was constructed, and the
\* contents of its slots.
OccupiedSlices ==
    IF rb = "SharedRb" THEN SharedRb_occupied_slices(read, write)
    ELSE RingBuffer_occupied_slices
SlotItem(k) == IF rb = "SharedRb" THEN Item(storage[k]) ELSE data[k]

\* C10 (occupied view): whenever the consumer holds no item it has moved out
\* and not yet committed, the occupied slices hold, first slice then second
\* slice, exactly the items pushed and not yet popped, oldest first; their
\* lengths sum to occupied_len(); the second slice is empty when the occupied
\* range does not run past the end of storage.
C10_OccupiedView ==
    (cbuf = <<>> \/ cpc = "done") =>
        LET sl == OccupiedSlices
            offsets == Chain(sl)
        IN  /\ [i \in 1..Len(offsets) |-> SlotItem(offsets[i])] = Remaining
            /\ Len(sl[1]) + Len(sl[2]) = OccupiedLen
            /\ Len(offsets) = Stored
            /\ ((read_end % capacity) + Stored <= capacity) => sl[2] = <<>>
            /\ sl[2] # <<>> => sl[1][Len(sl[1])] = capacity - 1

\* The items the running PopIter of consumer.rs has yielded are in cbuf; the
\* items the PopIterator of consumer/global.rs has yielded are those popped
\* since it was made.

\* C11 (pop_iter yields the items present at its creation): the iterator is
\* created over exactly the items stored at that moment; each next() yields
\* the oldest of them not yet yielded; it never yields more than that
\* number, so never an item pushed after its creation.
C11_PopIterSnapshot ==
    [][ /\ (rb = "SharedRb" /\ ccall = "pop_iter" /\ cpc = "occupied_write"
              /\ cpc' = "take")
            => /\ cinit' = Stored
               /\ [i \in 1..cinit' |-> Item(storage[Chain(cslices')[i]])] = Remaining
        /\ (rb = "SharedRb" /\ ccall = "pop_iter" /\ Len(cbuf') > Len(cbuf))
            => /\ Items(cbuf') =
                     Append(Items(cbuf), pushed[Len(popped) + Len(cbuf) + 1])
               /\ Len(cbuf') + Len(cslices'[1]) + Len(cslices'[2]) = cinit
        /\ (giter.live /\ giter'.live)
            => Len(popped') <= giter.limit
      ]_vars

\* C12 (a dropped pop_iter commits what it yielded): when a PopIter is
\* dropped after yielding k items, read_end becomes (read_end + k) modulo
\* 2 * capacity; the items it did not take are still in their slots, nothing
\* was destroyed, and they are the oldest items of the buffer afterwards.
C12_PopIterDrop ==
    [][ (rb = "SharedRb" /\ ccall = "pop_iter" /\ cpc = "advance_read_store"
           /\ cpc' = "done")
         => LET k == Len(cbuf)
                left == Chain(cslices)
                view == Chain(SharedRb_occupied_slices(read', write'))
            IN  /\ read' = (read + k) % (2 * capacity)
                /\ popped' = popped \o Items(cbuf)
                /\ cres' = Count(k)
                /\ \A i \in 1..Len(left) :
                      Item(storage'[left[i]]) = pushed[Len(popped) + k + i]
                /\ dropped' = dropped
                /\ Len(view) = Stored - k
                /\ \A i \in 1..Len(view) :
                      Item(storage'[view[i]]) = pushed[Len(popped) + k + i]
      ]_vars

\* A PopIter was dropped after yielding one item, on a buffer of capacity 2
\* whose read index has reached capacity: the next item is still stored.
C12_Witness ==
    /\ rb = "SharedRb" /\ capacity = 2
    /\ cpc = "done" /\ ccall = "pop_iter" /\ cres = Count(1)
    /\ Stored >= 1
    /\ read = capacity
    /\ storage[0] = popped[Len(popped)] + 1

\* The producer takes a step of a push_iter call.
PushIterStep == rb = "SharedRb" /\ pcall = "push_iter" /\ ppc' # ppc

\* C13 (push_iter): the vacant view push_iter obtains has capacity minus the
\* number of stored items slots; elements are taken from the sequence one at
\* a time, in order, each written into the next vacant slot; the call ends
\* when the sequence is exhausted or the view is used up, whichever is first,
\* returns the number n of elements taken, and the buffer then holds those n
\* elements, in sequence order, after the items it held before.
C13_PushIter ==
    [][ /\ (PushIterStep /\ ppc = "vacant_read")
            => Len(Chain(pslices')) = capacity - Stored
        /\ (PushIterStep /\ ppc = "fill" /\ ppc' = "fill_end")
            => /\ pcount < Len(psrc)
               /\ storage[pslot'] = Uninit
               /\ pslot' = (write + pcount) % capacity
        /\ (PushIterStep /\ ppc = "fill_end")
            => /\ storage'[pslot] = psrc[pcount + 1]
               /\ pcount' = pcount + 1
        /\ (PushIterStep /\ ppc = "advance_write_store")
            => LET n == pcount IN
               /\ n = Min(Len(psrc), n + Len(Chain(pslices)))
               /\ pres' = Count(n)
               /\ pushed' = pushed \o SubSeq(psrc, 1, n)
               /\ write' = (write + n) % (2 * capacity)
               /\ \A i \in 1..n :
                     storage'[(write + i - 1) % capacity] = psrc[i]
      ]_vars

\* A push_iter over a sequence of two elements has returned 1: the buffer
\* became full after the first, and the consumer is in the middle of a call.
C13_Witness ==
    /\ rb = "SharedRb"
    /\ ppc = "done" /\ pcall = "push_iter" /\ pres = Count(1)
    /\ Len(psrc) = 2
    /\ Stored = capacity
    /\ cpc \notin {"idle", "done"}

\* C14 (push_iter publishes once): during a push_iter call write_end changes
\* in one step only, the last of the call, and by the number of items of the
\* whole batch; a view the consumer obtains meanwhile holds the committed
\* items (for write_into, the first slice of them) and none of the batch in
\* flight.
C14_PushIterPublishesOnce ==
    [][ /\ (rb = "SharedRb" /\ pcall = "push_iter" /\ write' # write)
            => /\ ppc = "advance_write_store" /\ ppc' = "done"
               /\ write' = (write + pcount) % (2 * capacity)
               /\ pushed' = pushed \o SubSeq(psrc, 1, pcount)
        /\ (rb = "SharedRb" /\ pcall = "push_iter" /\ cpc = "occupied_write"
              /\ cpc' # cpc)
            => /\ cinit' <= Stored
               /\ (ccall # "write_into") => cinit' = Stored
               /\ [i \in 1..cinit' |-> Item(storage[Chain(cslices')[i]])]
                     = SubSeq(Remaining, 1, cinit')
      ]_vars

\* The consumer obtained an empty view while a push_iter call had written
\* two items and not yet published them.
C14_Witness ==
    /\ rb = "SharedRb"
    /\ pcall = "push_iter" /\ ppc = "advance_write_load" /\ pcount = 2
    /\ cpc = "take" /\ ccall = "pop_iter" /\ cinit = 0
    /\ storage[1] = 2

\* The last n items of the history of destroyed items.
LastDropped(n) == SubSeq(dropped, Len(dropped) - n + 1, Len(dropped))

\* C15 (skip): skip(n) bounds n by the occupied length it reads, which is the
\* number of stored items when the producer has published nothing since the
\* call began; it destroys exactly that many items, the oldest ones, each
\* once, returns that number, and occupied_len is smaller by it afterwards.
C15_Skip ==
    [][ /\ (rb = "SharedRb" /\ cpc = "skip_len_read" /\ cpc' # cpc)
            => /\ ccount' <= Min(climit, Stored)
               /\ (ca = write) => ccount' = Min(climit, Stored)
        /\ (rb = "SharedRb" /\ ccall = "skip" /\ cpc = "advance_read_store"
              /\ cpc' = "done")
            => LET k == Len(cbuf) IN
               /\ k = ccount
               /\ ~panicked'
               /\ cres' = Count(k)
               /\ Items(cbuf) = SubSeq(pushed, Len(popped) + 1, Len(popped) + k)
               /\ LastDropped(k) = Items(cbuf)
               /\ popped' = popped \o Items(cbuf)
               /\ SharedRb_occupied_len(write', read')
                     = SharedRb_occupied_len(write, read) - k
               /\ \A i \in 1..k : storage'[(read + i - 1) % capacity] = Uninit
        /\ rb = "SharedRb" => ~ub'
      ]_vars

\* skip has returned 1 on a buffer that held one item although it was asked
\* to skip more, after an earlier skip had already destroyed an item.
C15_Witness ==
    /\ rb = "SharedRb"
    /\ cpc = "done" /\ ccall = "skip" /\ cres = Count(1)
    /\ Stored = 0
    /\ Len(dropped) = 2
    /\ ppc = "idle"

\* C16 (clear): clear() destroys exactly the items of the occupied view it
\* obtained, which are all stored items at that moment, and returns their
\* number; when the producer has published nothing since, occupied_len is 0
\* afterwards; on an empty buffer it returns 0 and changes neither the
\* indices nor the storage.
C16_Clear ==
    [][ /\ (rb = "SharedRb" /\ ccall = "clear" /\ cpc = "occupied_write"
              /\ cpc' = "take")
            => /\ cinit' = Stored
               /\ [i \in 1..cinit' |-> Item(storage[Chain(cslices')[i]])] = Remaining
        /\ (rb = "SharedRb" /\ ccall = "clear" /\ cpc = "advance_read_store"
              /\ cpc' = "done")
            => LET k == Len(cbuf) IN
               /\ k = cinit
               /\ cres' = Count(k)
               /\ Items(cbuf) = SubSeq(pushed, Len(popped) + 1, Len(popped) + k)
               /\ LastDropped(k) = Items(cbuf)
               /\ \A i \in 1..k : storage'[(read + i - 1) % capacity] = Uninit
               /\ (Stored = k) =>
                     /\ SharedRb_occupied_len(write', read') = 0
                     /\ SharedRb_is_empty(read', write')
               /\ (k = 0) => UNCHANGED <<read, write, storage, dropped>>
        /\ (rb = "SharedRb" /\ ccall = "clear" /\ cpc' # cpc /\ Stored = 0
              /\ cpc # "idle")
            => /\ UNCHANGED <<read, write, storage, dropped, popped>>
               /\ (cpc' = "done") => cres' = Count(0)
      ]_vars

\* A clear has returned 2 and, the producer being idle, left the buffer
\* empty with both items destroyed.
C16_Witness ==
    /\ rb = "SharedRb"
    /\ cpc = "done" /\ ccall = "clear" /\ cres = Count(2)
    /\ Stored = 0 /\ read = write
    /\ Len(dropped) >= 2
    /\ ppc = "idle"

\* The producer takes a step of a push_slice call.
PushSliceStep == rb = "SharedRb" /\ pcall = "push_slice" /\ ppc' # ppc

\* C17 (push_slice): the vacant view push_slice obtains has vacant_len =
\* capacity minus the number of stored items slots, in one or two sub-slices;
\* the call copies the first n = min(L, vacant_len) elements of its source,
\* in order, into the first n slots of the view, returns n, and the buffer
\* then holds those n elements after the items it held before.
C17_PushSlice ==
    [][ /\ (PushSliceStep /\ ppc = "vacant_read")
            => /\ Len(Chain(pslices')) = capacity - Stored
               /\ Len(Chain(pslices')) = SharedRb_vacant_len(read, write)
               /\ \A i \in 1..Len(Chain(pslices')) :
                     Chain(pslices')[i] = (write + i - 1) % capacity
        /\ (PushSliceStep /\ ppc = "fill_end")
            => storage'[pslot] = psrc[pcount + 1]
        /\ (PushSliceStep /\ ppc = "advance_write_store")
            => LET n == pcount
                   vacant_len == n + Len(Chain(pslices))
               IN  /\ n = Min(Len(psrc), vacant_len)
                   /\ pres' = Count(n)
                   /\ pushed' = pushed \o SubSeq(psrc, 1, n)
                   /\ write' = (write + n) % (2 * capacity)
                   /\ \A i \in 1..n :
                         storage'[(write + i - 1) % capacity] = psrc[i]
      ]_vars

\* A push_slice of two elements has returned 2 on a buffer of capacity 2
\* whose write index was odd: the first element went to the last slot of the
\* storage and the second to slot 0, the second sub-slice.
C17_Witness ==
    /\ rb = "SharedRb" /\ capacity = 2
    /\ ppc = "done" /\ pcall = "push_slice" /\ pres = Count(2)
    /\ write % capacity = 1
    /\ storage[1] = psrc[1] /\ storage[0] = psrc[2]

\* The number of slots that hold a live item.
LiveCount ==
    Cardinality({k \in 0..(capacity - 1) : SlotItem(k) > Uninit})

\* No call is in progress and the buffer exists.
Quiescent == ppc = "idle" /\ cpc = "idle" /\ destroyed = 0

\* The buffer's Drop has run to its end.
DropFinished == destroyed > 0 /\ cpc = "idle"

\* C18 (drop safety): at every quiescent point the number of live items in
\* the buffer equals occupied_len(); no item is destroyed twice, only items
\* are destroyed, and no item is both handed to the caller and destroyed;
\* when the buffer's Drop has run, no slot holds a live item and every item
\* ever pushed was either popped or destroyed.
C18_DropSafety ==
    /\ Quiescent => LiveCount = OccupiedLen
    /\ \A i, j \in 1..Len(dropped) : i # j => dropped[i] # dropped[j]
    /\ \A i \in 1..Len(dropped) : dropped[i] \in 1..Len(pushed)
    /\ IsPrefix(popped, pushed)
    /\ destroyed <= 1
    /\ DropFinished => /\ LiveCount = 0
                       /\ popped = pushed

\* An endpoint is dropped in this step.
EndpointDropped == owners' # owners

\* C19 (owned split): the endpoints only ever go away, one at a time; the
\* drop of the first destroys no item, changes neither index and leaves the
\* buffer in place for the other endpoint; the buffer's Drop runs once, in
\* the step that drops the second endpoint, whichever that is.
C19_SplitOwnership ==
    [][ /\ EndpointDropped
            => /\ owners' \subseteq owners
               /\ Cardinality(owners') = Cardinality(owners) - 1
        /\ (EndpointDropped /\ owners' # {})
            => /\ destroyed' = 0
               /\ UNCHANGED <<read, write, storage, head, tail, data,
                              dropped, pushed, popped>>
        /\ (EndpointDropped /\ owners' = {})
            => destroyed = 0 /\ destroyed' = 1
        /\ (destroyed' # destroyed)
            => EndpointDropped /\ owners' = {}
        /\ (dropped' # dropped /\ destroyed = 0 /\ destroyed' = 0)
            => "consumer" \in owners
      ]_vars

\* The consumer was dropped first; the producer alone has since pushed an
\* item with success, and the buffer's Drop has not run.
C19_Witness ==
    /\ rb = "SharedRb"
    /\ owners = {"producer"}
    /\ ppc = "done" /\ pcall = "try_push" /\ pres = Ok
    /\ cpc = "idle"
    /\ destroyed = 0
    /\ Stored = capacity

\* A step of a try_push call of the producer, from its start to its return.
ProducerPushStep == pcall = "try_push" \/ pcall' = "try_push"

\* A step of a try_pop call of the consumer, from its start to its return.
ConsumerPopStep == ccall = "try_pop" \/ ccall' = "try_pop"

\* The step is the producer's sync, its conversion to immediate mode, or
\* its drop.
ProducerPublishStep ==
    \/ ppc = "idle" /\ ppc' = "sync_fetch"
    \/ pmode = "postponed" /\ pmode' = "immediate"
    \/ ppc = "idle" /\ ppc' = "release"

\* The step is the consumer's sync, its conversion to immediate mode, or
\* its drop.
ConsumerPublishStep ==
    \/ cpc = "idle" /\ cpc' = "sync_fetch"
    \/ cmode = "postponed" /\ cmode' = "immediate"
    \/ cpc = "idle" /\ cpc' = "release"

\* The producer endpoint exists and is in postponed mode.
PostponedProducer == "producer" \in owners /\ pmode = "postponed"

\* The consumer endpoint exists and is in postponed mode.
PostponedConsumer == "consumer" \in owners /\ cmode = "postponed"

\* C20 (postponed mode): no step of a push of a postponed producer changes
\* write_end, and each accepted push adds one to its accumulated advance;
\* write_end changes only at the producer's sync, conversion to immediate
\* mode or drop, and there it advances by the accumulated total.  The same
\* holds for a postponed consumer, its pops and read_end.  The consumer's
\* occupied_len is the number of items published minus those it removed:
\* after a sync that follows k postponed pushes, with no pops, it is k more
\* than the buffer held at the start.
C20_PostponedMode ==
    [][ /\ (PostponedProducer /\ ProducerPushStep) => write' = write
        /\ (PostponedProducer /\ pres' = Ok /\ pres # Ok)
            => pheld' = Append(pheld, psrc[1])
        /\ (PostponedProducer /\ write' # write) => ProducerPublishStep
        /\ (PostponedProducer /\ ProducerPublishStep)
            => /\ write' = (write + Len(pheld)) % (2 * capacity)
               /\ pushed' = pushed \o pheld
               /\ pheld' = <<>>
        /\ (PostponedConsumer /\ ConsumerPopStep) => read' = read
        /\ (PostponedConsumer /\ cres'.kind = "Some" /\ cres.kind # "Some")
            => cheld' = Append(cheld, cres'.val)
        /\ (PostponedConsumer /\ read' # read) => ConsumerPublishStep
        /\ (PostponedConsumer /\ ConsumerPublishStep)
            => /\ read' = (read + Len(cheld)) % (2 * capacity)
               /\ popped' = popped \o cheld
               /\ cheld' = <<>>
        /\ (ccall' = "occupied_len" /\ ccall = "none")
            => cres' = Length(Len(pushed) - Len(popped) - Len(cheld))
      ]_vars

\* The buffer started empty; the postponed producer pushed two items and
\* published them by sync; nothing was popped, and the consumer's
\* occupied_len has just returned 2.
C20_Witness ==
    /\ pmode = "postponed"
    /\ psynced = 2 /\ Len(pushed) = 2
    /\ pheld = <<>>
    /\ popped = <<>> /\ cheld = <<>>
    /\ ccall = "occupied_len" /\ cres = Length(2)

\* The vacant space the producer derives from its snapshot, and the one
\* the real read index gives it.
ProducerApparentVacant == SharedRb_vacant_len(pread, pwrite)
ProducerTrueVacant == SharedRb_vacant_len(read, pwrite)

\* The occupancy the consumer derives from its snapshot, and the one the
\* real write index gives it.
ConsumerApparentOccupied == SharedRb_occupied_len(cwrite, cread)
ConsumerTrueOccupied == SharedRb_occupied_len(write, cread)

\* How far index `to` lies ahead of index `from`, modulo 2 * capacity.
Advance(from, to) == (to - from) % (2 * capacity)

\* Both shared indices are in range, and what each cached endpoint derives
\* from its snapshot does not exceed what the real index gives.
CachedViewsSafe ==
    /\ read \in 0..(2 * capacity - 1)
    /\ write \in 0..(2 * capacity - 1)
    /\ SharedRb_occupied_len(write, read) \in 0..capacity
    /\ "producer" \in owners =>
          /\ ProducerApparentVacant \in 0..capacity
          /\ ProducerApparentVacant <= ProducerTrueVacant
          /\ ProducerTrueVacant <= capacity
    /\ "consumer" \in owners =>
          /\ ConsumerApparentOccupied \in 0..capacity
          /\ ConsumerApparentOccupied <= ConsumerTrueOccupied
          /\ ConsumerTrueOccupied <= capacity
    /\ ~ub

\* C21 (stale snapshots are safe): with cached or postponed endpoints the
\* vacant space the producer derives from its snapshot of read_end never
\* exceeds the true one, and the occupancy the consumer derives from its
\* snapshot of write_end never exceeds the true one; the producer writes
\* only into slots that hold no item, the consumer reads only slots that
\* hold one, a refused push or an empty pop changes nothing in the buffer,
\* and each shared index stays in range and only moves forward, by no more
\* than the vacant (write) or occupied (read) length.
C21_StaleSnapshotSafe ==
    /\ []CachedViewsSafe
    /\ [][ /\ (ppc = "cached_fill" /\ ppc' = "cached_fill_end")
                => storage[pslot'] = Uninit
           /\ (cpc = "cached_take" /\ cpc' # "cached_take")
                => /\ cheld' = Append(cheld, cbuf'[1])
                   /\ cbuf'[1] = pushed[Len(popped) + Len(cheld) + 1]
           /\ (pres'.kind = "Err" /\ pres.kind # "Err")
                => UNCHANGED <<read, write, storage, pwrite, pushed, pheld>>
           /\ (cres'.kind = "None" /\ cres.kind # "None")
                => UNCHANGED <<read, write, storage, cread, popped, cheld>>
           /\ Advance(write, write') <= SharedRb_vacant_len(read, write)
           /\ Advance(read, read') <= SharedRb_occupied_len(write, read)
         ]_vars

\* A postponed producer is writing a slot it found vacant through a stale
\* snapshot of the read index: the consumer, postponed too, has published
\* an advance the producer has not fetched.
C21_Witness ==
    /\ pmode = "postponed" /\ cmode = "postponed"
    /\ ppc = "cached_fill_end"
    /\ pread # read
    /\ ProducerApparentVacant < ProducerTrueVacant
    /\ storage[pslot] = Partial

\* The steps the producer takes inside a call, after the call has begun.
ProducerOwnStep ==
    \/ is_full_load_write \/ is_full_load_read
    \/ vacant_load_write \/ vacant_load_read
    \/ fill_begin \/ fill_end \/ fill_done
    \/ advance_write_load \/ advance_write_store
    \/ Producer_len_load_write \/ Producer_len_load_read
    \/ Producer_remaining_load_read \/ Producer_remaining_load_write
    \/ CachedProd_fetch \/ CachedProd_fill_begin \/ CachedProd_fill_end
    \/ CachedProd_try_push_commit \/ CachedProd_sync_fetch
    \/ CachedProd_release
    \/ producer_return
    \/ Producer_read_from_error \/ transfer_return

\* The steps the consumer takes inside a call, after the call has begun
\* (the steps of the buffer's own Drop are among them).
ConsumerOwnStep ==
    \/ is_empty_load_read \/ is_empty_load_write
    \/ occupied_load_read \/ occupied_load_write
    \/ try_pop_read \/ pop_slice_copy \/ pop_slice_done
    \/ PopIter_next \/ PopIter_drop
    \/ skip_len_load_write \/ skip_len_load_read
    \/ RawRb_skip_drop_in_place \/ RawRb_skip_done
    \/ advance_read_load \/ advance_read_store
    \/ Consumer_len_load_write \/ Consumer_len_load_read
    \/ CachedCons_fetch \/ CachedCons_take \/ CachedCons_try_pop_commit
    \/ CachedCons_sync_fetch \/ CachedCons_release
    \/ consumer_return
    \/ Consumer_write_into_error \/ transfer_fill

\* Slot writes the producer's copy loop still has to make.
FillLeft ==
    IF pcall = "try_push"
    THEN 1 - pcount
    ELSE Min(Len(psrc) - pcount, Len(Chain(pslices)))

\* An upper bound on the steps the producer's current call still takes.
ProducerRank ==
    IF "producer" \notin owners THEN 0
    ELSE CASE ppc = "idle" -> 0
           [] ppc = "done" -> 1
           [] ppc = "release" -> 1
           [] ppc = "advance_write_store" -> 2
           [] ppc = "advance_write_load" -> 3
           [] ppc = "fill" -> 4 + 2 * FillLeft
           [] ppc = "fill_end" ->
                 IF pcall = "try_push" THEN 5
                 ELSE 5 + 2 * Min(Len(psrc) - pcount - 1, Len(Chain(pslices)))
           [] ppc = "vacant_read" -> 5 + 2 * Len(psrc)
           [] ppc = "vacant_write" -> 6 + 2 * Len(psrc)
           [] ppc = "is_full_read" -> 7 + 2 * Len(psrc)
           [] ppc = "is_full_write" -> 8 + 2 * Len(psrc)
           [] ppc = "len_read" -> 2
           [] ppc = "len_write" -> 3
           [] ppc = "remaining_write" -> 2
           [] ppc = "remaining_read" -> 3
           [] ppc = "commit" -> 2
           [] ppc = "cached_fill_end" -> 3
           [] ppc = "cached_fill" -> 4
           [] ppc = "fetch" -> 5
           [] ppc = "sync_fetch" -> 2
           [] ppc = "transfer_wait" -> 0

\* Items the consumer's current call still has to take or destroy.
TakeLeft ==
    CASE ccall = "try_pop" -> 1 - Len(cbuf)
      [] ccall \in SliceTakers -> Min(climit, cinit) - Len(cbuf)
      [] ccall = "pop_iter" -> PopIter_len
      [] OTHER -> RawRb_skip_limit - Len(cbuf)

\* An upper bound on the steps the consumer's current call still takes.
ConsumerRank ==
    CASE cpc = "idle" -> 0
      [] cpc = "done" -> 1
      [] cpc = "release" -> IF "consumer" \in owners THEN 7 + capacity ELSE 0
      [] cpc = "advance_read_store" -> 2
      [] cpc = "advance_read_load" -> 3
      [] cpc = "take" -> 4 + TakeLeft
      [] cpc = "occupied_write" -> 5 + capacity
      [] cpc = "occupied_read" -> 6 + capacity
      [] cpc = "is_empty_write" -> 7 + capacity
      [] cpc = "is_empty_read" -> 8 + capacity
      [] cpc = "skip_len_read" -> 7 + capacity
      [] cpc = "skip_len_write" -> 8 + capacity
      [] cpc = "len_read" -> 2
      [] cpc = "len_write" -> 3
      [] cpc = "commit" -> 2
      [] cpc = "cached_take" -> 3
      [] cpc = "fetch" -> 4
      [] cpc = "sync_fetch" -> 2
      [] cpc = "transfer_wait" -> 0
      [] cpc = "borrowed" -> 0

\* The largest number of steps any single operation takes.
MaxRank == 8 + 2 * MaxBatch + MaxCap

\* The producer (consumer) takes a step of its own in this step.
ProducerMoves ==
    \/ prodVars' # prodVars
    \/ "producer" \in owners /\ "producer" \notin owners'
ConsumerMoves ==
    \/ consVars' # consVars
    \/ "consumer" \in owners /\ "consumer" \notin owners'

\* C22 (bounded operations, no waiting): while an operation is in progress
\* its endpoint always has a step it can take, whatever state the
\* counterpart is in; each such step lowers a bound on the steps that
\* remain, the bound is at most MaxRank, and no step of the counterpart
\* raises it.
C22_BoundedOperations ==
    /\ [](/\ ProducerRank \in 0..MaxRank
          /\ ConsumerRank \in 0..MaxRank
          /\ (Running /\ ProducerRank > 0) => ENABLED ProducerOwnStep
          /\ (Running /\ ConsumerRank > 0) => ENABLED ConsumerOwnStep)
    /\ [][ /\ (ProducerRank > 0 /\ ProducerMoves)
                => ProducerRank' < ProducerRank
           /\ (ProducerRank > 0 /\ ~ProducerMoves)
                => ProducerRank' = ProducerRank
           /\ (ConsumerRank > 0 /\ ConsumerMoves)
                => ConsumerRank' < ConsumerRank
           /\ (ConsumerRank > 0 /\ ~ConsumerMoves)
                => ConsumerRank' = ConsumerRank
         ]_vars

\* push_iter has returned with items of its source left over, having filled
\* the buffer, while the consumer has never taken a step.
C22_Witness ==
    /\ rb = "SharedRb"
    /\ pcall = "push_iter" /\ ppc = "done"
    /\ pres.val < Len(psrc)
    /\ cpc = "idle" /\ popped = <<>> /\ dropped = <<>>
    /\ "consumer" \in owners /\ ~giter.live
    /\ read = 0

\* C23 (zero capacity): new(0) panics, and the panic ends the program
\* before any buffer exists; every buffer that exists has capacity at least
\* 1 (modulus at least 2), and every step of an operation is taken on such a
\* buffer.
C23_ZeroCapacityPanics ==
    /\ [](/\ (rb = "none") <=> (capacity = 0)
          /\ (rb # "none") => (capacity >= 1 /\ modulus(capacity) >= 2)
          /\ (rb = "none") =>
                /\ ppc = "idle" /\ cpc = "idle"
                /\ pushed = <<>> /\ popped = <<>> /\ dropped = <<>>)
    /\ [][ /\ ~panicked
           /\ (rb = "none" /\ rb' = "none") => (panicked' /\ capacity' = 0)
           /\ (rb = "none" /\ rb' # "none")
                => (~panicked' /\ capacity' >= 1
                    /\ DOMAIN storage' = 0..(capacity' - 1))
           /\ (rb # "none") => (rb' = rb /\ capacity' = capacity)
         ]_vars

\* The consumer's len() has returned and its value is still with the caller.
ConsumerLenReturned == cpc = "done" /\ ccall = "len"

\* The producer's remaining() has returned and its value is still with the
\* caller.
ProducerRemainingReturned == ppc = "done" /\ pcall = "remaining"

\* C24 (advisory bounds): the value the consumer's len() returned is at most
\* the number of items stored, and the value the producer's remaining()
\* returned is at most the number of free slots, in every state while the
\* caller holds it, whatever the counterpart does meanwhile; an advance of
\* the caller's own index by any n up to that value keeps occupied_len
\* within [0, capacity].  The bound lasts until the caller's own next
\* removal (insertion): no step of the producer lowers the occupancy and no
\* step of the consumer raises it.
C24_AdvisoryBounds ==
    /\ [](/\ ConsumerLenReturned =>
                /\ cres.val <= Stored
                /\ cres.val <= SharedRb_occupied_len(write, read)
                /\ \A n \in 0..cres.val :
                      SharedRb_occupied_len(
                          write, SharedRb_advance_read_index(read, n))
                        = SharedRb_occupied_len(write, read) - n
          /\ ProducerRemainingReturned =>
                /\ pres.val <= capacity - Stored
                /\ pres.val <= SharedRb_vacant_len(read, write)
                /\ \A n \in 0..pres.val :
                      SharedRb_occupied_len(
                          SharedRb_advance_write_index(write, n), read)
                        = SharedRb_occupied_len(write, read) + n)
    /\ [][ /\ (SharedRb_occupied_len(write', read')
                 < SharedRb_occupied_len(write, read))
                => (consVars' # consVars /\ prodVars' = prodVars
                    /\ write' = write)
           /\ (SharedRb_occupied_len(write', read')
                 > SharedRb_occupied_len(write, read))
                => (prodVars' # prodVars /\ consVars' = consVars
                    /\ read' = read)
         ]_vars

\* The consumer's len() returned 0 on an empty buffer; the producer has
\* since filled the buffer, and the caller still holds the 0.
C24_Witness ==
    /\ ConsumerLenReturned
    /\ cres.val = 0
    /\ Stored = capacity
    /\ SharedRb_occupied_len(write, read) = capacity
    /\ ppc = "idle"

\* The formula (read_end - write_end + M) mod M, M = 2 * capacity, over the
\* two index fields of the buffer.
IndexDifference ==
    (read_end - write_end + 2 * capacity) % (2 * capacity)

VacantSlices ==
    IF rb = "SharedRb" THEN SharedRb_vacant_slices(write, read)
    ELSE RingBuffer_vacant_slices

\* C26 (vacant view): in every reachable state the vacant slices, first
\* slice then second slice, are the storage offsets of the positions
\* write_end, write_end + 1, ... up to read_end + capacity: the view starts
\* at write_end mod capacity, its lengths sum to capacity - occupied_len
\* (the whole capacity when the buffer is empty, nothing when it is full),
\* and it has no slot in common with the occupied view.
C26_VacantView ==
    LET offsets == Chain(VacantSlices)
        occupied == Chain(OccupiedSlices)
    IN  /\ Len(offsets) = capacity - OccupiedLen
        /\ \A i \in 1..Len(offsets) :
              offsets[i] = (write_end + i - 1) % capacity
        /\ IsEmpty => Len(offsets) = capacity
        /\ IsFull => Len(offsets) = 0
        /\ \A i \in 1..Len(offsets) : \A j \in 1..Len(occupied) :
              offsets[i] # occupied[j]
        /\ Len(offsets) + Len(occupied) = capacity

\* The number of items this step commits to the buffer, and the number it
\* removes from it.
AdvancedWrite == Len(pushed') - Len(pushed)
AdvancedRead == Len(popped') - Len(popped)

\* C27 (index advance): a step that commits n items sets write_end to
\* (write_end + n) mod 2 * capacity and a step that removes n items sets
\* read_end to (read_end + n) mod 2 * capacity, whatever the counterpart did
\* between the load of the index and its store; no other step changes an
\* index; occupied_len changes by exactly the items committed minus those
\* removed, also when an index wraps past 2 * capacity; the store of an
\* index of SharedRb changes no slot.
C27_IndexAdvance ==
    [][ /\ write_end' = (write_end + AdvancedWrite) % (2 * capacity)
        /\ read_end' = (read_end + AdvancedRead) % (2 * capacity)
        /\ OccupiedLen' = OccupiedLen + AdvancedWrite - AdvancedRead
        /\ (ppc = "advance_write_store" /\ ppc' # ppc)
              => write' = (write + pcount) % (2 * capacity)
        /\ (cpc = "advance_read_store" /\ cpc' # cpc)
              => read' = (read + AdvanceReadCount) % (2 * capacity)
        /\ (write' # write \/ read' # read) => storage' = storage
      ]_vars

\* The range of an index of a buffer of the current capacity.
IndexRange == 0 .. (2 * capacity - 1)

\* C28 (index range): once a buffer of capacity at least 1 is constructed,
\* with both indices zero, read_end and write_end stay in
\* 0 .. 2 * capacity - 1 after any sequence of endpoint operations, and so
\* do the endpoints' cached copies of them.  (The RingBuffer over an empty
\* container, see C23, has an empty index range and no operation that
\* returns.)
C28_IndexRange ==
    (rb # "none" /\ capacity >= 1) =>
        /\ read_end \in IndexRange
        /\ write_end \in IndexRange
        /\ (pmode # "direct") => (pwrite \in IndexRange /\ pread \in IndexRange)
        /\ (cmode # "direct") => (cread \in IndexRange /\ cwrite \in IndexRange)

\* Both indices of a SharedRb have advanced from zero, and the write index
\* has wrapped past 2 * capacity to 0.
C28_Witness ==
    /\ rb = "SharedRb"
    /\ Len(pushed) = 2 * capacity
    /\ write = 0
    /\ read = 2 * capacity - 1

\* A step of an operation of the producer handle.
ProducerOperation ==
    \/ ProducerStep
    \/ Producer_len \/ Producer_len_load_write \/ Producer_len_load_read
    \/ Producer_remaining
    \/ Producer_remaining_load_read \/ Producer_remaining_load_write
    \/ ArcProducer_push \/ ArcProducer_push_slice

\* A step of an operation of the consumer handle, or of the clear() that the
\* buffer's own Drop runs once both handles are gone.
ConsumerOperation ==
    \/ ConsumerStep
    \/ Consumer_len \/ Consumer_len_load_write \/ Consumer_len_load_read
    \/ ArcConsumer_pop \/ ArcConsumer_pop_slice

\* The occupied and the vacant length the two indices stand for.
IndexOccupied == Advance(read_end, write_end)
IndexVacant == capacity - IndexOccupied

\* C29 (index ownership): no step of a producer operation changes read_end
\* and no step of a consumer operation changes write_end; read_end changes
\* only in a step of a consumer operation and write_end only in a step of a
\* producer operation; each change moves the index forward, modulo
\* 2 * capacity, by at most the occupied (for write_end: the vacant) length
\* at that moment.
C29_IndexOwnership ==
    [][ /\ ProducerOperation => read_end' = read_end
        /\ ConsumerOperation => write_end' = write_end
        /\ read_end' # read_end =>
              /\ ConsumerOperation
              /\ Advance(read_end, read_end') <= IndexOccupied
        /\ write_end' # write_end =>
              /\ ProducerOperation
              /\ Advance(write_end, write_end') <= IndexVacant
      ]_vars

\* C30 (move_head / move_tail panics): move_head(count) panics exactly when
\* count exceeds the number of items in the buffer, move_tail(count) panics
\* exactly when count exceeds the number of vacant places; a call that
\* panics changes neither index, and a call within the bound does not
\* panic.
C30_MovePanics ==
    [][ \A count \in MoveCounts :
          /\ RingBufferHead_move_head(count) =>
                /\ panicked' <=> (count > IndexOccupied)
                /\ panicked' => (head' = head /\ tail' = tail)
          /\ RingBufferTail_move_tail(count) =>
                /\ panicked' <=> (count > IndexVacant)
                /\ panicked' => (head' = head /\ tail' = tail)
      ]_vars

\* A PopIter of consumer.rs exists and its drop has not begun.
PopIterAlive ==
    /\ rb = "SharedRb" /\ ccall = "pop_iter"
    /\ cpc \in {"occupied_read", "occupied_write", "take"}

\* A PopIterator of consumer/global.rs exists.
PopIteratorAlive == rb = "SharedRb" /\ giter.live

\* C31 (pop_iter commits at its drop): from the creation of a pop_iter
\* iterator until its drop no step changes read_end, so the vacant length
\* the producer can compute does not grow while the iterator lives,
\* whatever number of items the iterator has yielded.
C31_PopIterCommitsAtDrop ==
    [][ ((PopIterAlive /\ PopIterAlive') \/
         (PopIteratorAlive /\ PopIteratorAlive'))
          => /\ read' = read
             /\ SharedRb_vacant_len(read', write')
                  <= SharedRb_vacant_len(read, write)
      ]_vars

\* The value of vacant_len before the modulo, in SharedRb and in RingBuffer,
\* for a loaded read index r and a loaded write index w.
SharedRb_vacant_len_raw(r, w) == capacity + r - w
RingBuffer_vacant_len_raw ==
    RingBuffer_modulus + RingBuffer_head - RingBuffer_tail - capacity

\* C32 (vacant_len does not underflow): for the current pair of indices and
\* for the pair the producer's remaining() works on (a read index loaded
\* earlier, possibly stale, and the write index as it is at the second load)
\* capacity + read - write is at least 0, so the write index never exceeds
\* the read index by more than capacity numerically; for RingBuffer
\* modulus + head - tail - capacity, on the values head() and tail() return,
\* is at least 0, and tail never exceeds head by more than capacity.
C32_VacantLenNoUnderflow ==
    /\ rb = "SharedRb" =>
          /\ SharedRb_vacant_len_raw(read, write) >= 0
          /\ write - read <= capacity
          /\ ppc = "remaining_write" =>
                /\ SharedRb_vacant_len_raw(pa, write) >= 0
                /\ write - pa <= capacity
    /\ rb = "RingBuffer" =>
          /\ RingBuffer_vacant_len_raw >= 0
          /\ RingBuffer_tail - RingBuffer_head <= capacity
          /\ tail - head <= capacity

\* The producer's remaining() has loaded the read index of a full buffer,
\* the consumer has advanced it since, and the difference is exactly 0.
C32_Witness ==
    /\ rb = "SharedRb" /\ ppc = "remaining_write"
    /\ pa # read
    /\ SharedRb_vacant_len_raw(pa, write) = 0
    /\ write > pa

\* skip has computed its count and RawRb::skip(Some(count)) holds the
\* occupied slices it took.
SkipHoldsSlices ==
    /\ rb = "SharedRb" /\ ccall = "skip"
    /\ cpc \in {"take", "advance_read_load", "advance_read_store"}

\* C33 (the assertion of skip): in every interleaving with pushes of the
\* producer the occupied slices RawRb::skip takes hold at least count items,
\* so it destroys exactly count items; the step that ends skip finds
\* the number destroyed equal to count, does not panic, advances read_end
\* by count and returns count.
C33_SkipAssertion ==
    /\ [](SkipHoldsSlices =>
             /\ ccount <= cinit
             /\ RawRb_skip_limit = ccount
             /\ Len(cbuf) <= ccount)
    /\ [][ (rb = "SharedRb" /\ ccall = "skip" /\ cpc = "advance_read_store"
              /\ cpc' = "done")
             => /\ Len(cbuf) = ccount
                /\ panicked' = panicked
                /\ read' = (read + ccount) % (2 * capacity)
                /\ cres' = Count(ccount)
       ]_vars

\* skip has destroyed its count of items and is about to store read_end,
\* its slices reach further than count, and the producer is in the middle
\* of a push.
C33_Witness ==
    /\ rb = "SharedRb" /\ ccall = "skip" /\ cpc = "advance_read_store"
    /\ ccount >= 1 /\ Len(cbuf) = ccount
    /\ cinit > ccount
    /\ ppc = "advance_write_store"
    /\ ~panicked

====
